---- MODULE Spec2Model ----
(***************************************************************************)
(* Timeline compositor and renderer of the comic-video authoring tool.     *)
(*                                                                         *)
(* Times are exact integers counted in ticks of 1/40 s (0.1 s = 4 ticks,   *)
(* 0.5 s = 20 ticks), so that the durations typed into the editor and      *)
(* their quotients by the modelled playback rates are all exact.           *)
(***************************************************************************)
EXTENDS Integers, Sequences, FiniteSets, TLC

VARIABLES
    scenes,             \* App state: Scene[] (images per scene, overlay)
    playbackRate,       \* VideoStep state: playbackRate
    videoConfig,        \* App state: VideoConfig (audioFile, trimStart, trimEnd)
                        \* and the length of the uploaded narration
    audioDuration,      \* VideoStep state: audioDuration (0 until metadata)
    playbackState,      \* VideoPlayer state: 'paused' | 'playing'
    audioTime,          \* audioRef.current.currentTime (master clock)
    audioPaused,        \* audioRef.current.paused
    intervalRef,        \* intervalRef.current # null (sampler timer scheduled)
    imageBuffer,        \* VideoPlayer state: [string | null, string | null]
    activeBufferIndex,  \* VideoPlayer state: 0 | 1
    currentSceneIndex,  \* VideoPlayer state
    liveTimers,         \* sampler timers scheduled by window.setInterval
    bgAudio,            \* backgroundMusicAudioRef.current
    lastPlayedMusicUrl, \* lastPlayedMusicUrl.current (0 = null)
    overlayPaused,      \* overlayVideoRef.current is absent or paused
    isExporting,        \* VideoStep state
    videoReady,         \* VideoStep state
    exportedVideoUrl,   \* VideoStep state (0 = null)
    exportedVideoBlob,  \* VideoStep state (0 = null)
    exportMessage,      \* VideoStep state, by kind of message
    exportPc,           \* position of the running handleCreateVideo call
    createResult,       \* how the last handleCreateVideo call left its guard
    pendingPreloads,    \* urls whose preload promise has not settled
    mediaElements,      \* urls whose element has been stored by onMediaLoad
    recorderState,      \* MediaRecorder.state
    stoppedByDrawLoop,  \* recorder.stop() was called by drawFrame
    elapsedTime,        \* performance.now() - startTime of the draw loop
    framesDrawn,        \* frames painted by drawFrame in this export
    audioGraph,         \* the start calls made on the sources of audioCtx
    referenceImages,    \* App state: referenceImages.length
    isBatchGenerating,  \* SceneStep state
    batchQueue,         \* handleBatchGenerate: placeholders its loop has not reached
    requests,           \* generateSceneImage calls that have not settled
    keyStatus,          \* status of the active key in geminiApiKeysList
    isLoading,          \* CharacterStep state
    generatedImage,     \* CharacterStep state: generatedImage # null
    mouseListener       \* what the mousemove listener of an overlay drag closes over

sceneVars  == <<scenes>>
\* The error texts that setError shows are left out: no handler reads them.
genVars    == <<referenceImages, isBatchGenerating, batchQueue, requests,
                keyStatus, isLoading, generatedImage, mouseListener>>
cfgVars    == <<playbackRate, videoConfig, audioDuration>>
trackVars  == <<liveTimers, bgAudio, lastPlayedMusicUrl, overlayPaused>>
playerVars == <<playbackState, audioTime, audioPaused, intervalRef, imageBuffer,
                activeBufferIndex, currentSceneIndex, trackVars>>
exportVars == <<isExporting, videoReady, exportedVideoUrl, exportedVideoBlob,
                exportMessage, exportPc, createResult, pendingPreloads,
                mediaElements, recorderState, stoppedByDrawLoop, elapsedTime,
                framesDrawn, audioGraph>>
vars == <<scenes, playbackRate, videoConfig, audioDuration, playbackState, audioTime,
          audioPaused, intervalRef, imageBuffer, activeBufferIndex,
          currentSceneIndex, liveTimers, bgAudio, lastPlayedMusicUrl,
          overlayPaused, isExporting, videoReady, exportedVideoUrl,
          exportedVideoBlob, exportMessage, exportPc, createResult,
          pendingPreloads, mediaElements, recorderState, stoppedByDrawLoop,
          elapsedTime, framesDrawn, audioGraph, referenceImages,
          isBatchGenerating, batchQueue, requests, keyStatus, isLoading,
          generatedImage, mouseListener>>

(***************************************************************************)
(* Bounds                                                                  *)
(***************************************************************************)
MaxScenes == 3
MaxImages == 3

(***************************************************************************)
(* Values                                                                  *)
(***************************************************************************)
NoUrl == 0                       \* null, and the '' url of a placeholder
Null == -1000000                 \* null of a nullable number (trimEnd)

Status == {"idle", "generating", "error", "done"}

\* Strings typed into a duration field, as character sequences.
DurationStrs == { <<>>, <<"-", "1">>, <<"1", ".", "5">>, <<"2">>, <<"4">> }

\* Playback rates as fractions num/den; a subset of speedOptions.
SpeedOptions == { [num |-> 4, den |-> 5], [num |-> 1, den |-> 1],
                  [num |-> 5, den |-> 4], [num |-> 2, den |-> 1] }
RateOne == [num |-> 1, den |-> 1]

DefaultDuration == 120           \* duration: 3

Min(a, b) == IF a <= b THEN a ELSE b

(***************************************************************************)
(* parseFloat on the typed string, in ticks.                               *)
(***************************************************************************)
DigitChars == {"0", "1", "2", "3", "4", "5", "6", "7", "8", "9"}
DigitVal(c) ==
    CASE c = "0" -> 0 [] c = "1" -> 1 [] c = "2" -> 2 [] c = "3" -> 3
      [] c = "4" -> 4 [] c = "5" -> 5 [] c = "6" -> 6 [] c = "7" -> 7
      [] c = "8" -> 8 [] c = "9" -> 9

RECURSIVE LeadingDigits(_)
LeadingDigits(str) ==
    IF str = <<>> \/ Head(str) \notin DigitChars THEN 0
    ELSE 1 + LeadingDigits(Tail(str))

RECURSIVE IntOfDigits(_, _)
IntOfDigits(str, n) ==
    IF n = 0 THEN 0
    ELSE 10 * IntOfDigits(SubSeq(str, 1, n - 1), n - 1) + DigitVal(str[n])

\* Result: [nan |-> BOOLEAN, val |-> ticks]; one fractional digit is kept.
ParseFloat(str) ==
    LET neg   == str # <<>> /\ Head(str) = "-"
        body  == IF neg THEN Tail(str) ELSE str
        nInt  == LeadingDigits(body)
        rest  == SubSeq(body, nInt + 1, Len(body))
        hasPt == rest # <<>> /\ Head(rest) = "."
        frac  == IF hasPt THEN Tail(rest) ELSE <<>>
        nFrac == LeadingDigits(frac)
        mag   == 40 * IntOfDigits(body, nInt)
                 + (IF nFrac > 0 THEN 4 * DigitVal(frac[1]) ELSE 0)
    IN  IF nInt = 0 /\ nFrac = 0 THEN [nan |-> TRUE, val |-> 0]
        ELSE [nan |-> FALSE, val |-> IF neg THEN 0 - mag ELSE mag]

(***************************************************************************)
(* Timeline Builder                                                        *)
(***************************************************************************)
\* Variant: the selection flag is not looked at.
EligibleIgnoringSelection(img) == img.status = "done"

\* img.status === 'done' && img.isSelected
Eligible(img) == img.status = "done" /\ img.isSelected

\* Variant: every selected image is taken, whatever its status.
SelectedImagesOfAnyStatus(scene) ==
    SelectSeq(scene.images, LAMBDA img : img.isSelected)

\* scene.images.filter(img => img.status === 'done' && img.isSelected)
SelectedImages(scene) == SelectSeq(scene.images, Eligible)

\* image.duration / playbackRate
DurationOnPlayback(duration, rate) == (duration * rate.den) \div rate.num

\* selectedImages.forEach(image => timeline.push(...); cumulativeTime += ...)
RECURSIVE PushImages(_, _)
PushImages(images, acc) ==
    IF images = <<>> THEN acc
    ELSE PushImages(Tail(images),
            [timeline |-> Append(acc.timeline,
                            [url       |-> Head(images).url,
                             startTime |-> acc.cumulativeTime,
                             endTime   |-> acc.cumulativeTime + Head(images).duration]),
             cumulativeTime |-> acc.cumulativeTime + Head(images).duration])

\* VideoPlayer useMemo: scenes.forEach(scene => { startTimes.push(...); ... })
RECURSIVE PreviewWalk(_, _)
PreviewWalk(sc, acc) ==
    IF sc = <<>> THEN acc
    ELSE LET pushed == PushImages(SelectedImages(Head(sc)),
                          [timeline |-> acc.imageTimeline,
                           cumulativeTime |-> acc.totalDuration])
         IN  PreviewWalk(Tail(sc),
                [imageTimeline   |-> pushed.timeline,
                 sceneStartTimes |-> Append(acc.sceneStartTimes, acc.totalDuration),
                 totalDuration   |-> pushed.cumulativeTime])

PreviewTimeline(sc) ==
    PreviewWalk(sc, [imageTimeline |-> <<>>, sceneStartTimes |-> <<>>,
                     totalDuration |-> 0])

\* handleCreateVideo: the rate-adjusted images of one scene
RECURSIVE PushImagesOnPlayback(_, _, _)
PushImagesOnPlayback(images, rate, acc) ==
    IF images = <<>> THEN acc
    ELSE LET d == DurationOnPlayback(Head(images).duration, rate)
         IN  PushImagesOnPlayback(Tail(images), rate,
                [timeline |-> Append(acc.timeline,
                                [url       |-> Head(images).url,
                                 startTime |-> acc.cumulativeTime,
                                 endTime   |-> acc.cumulativeTime + d]),
                 cumulativeTime |-> acc.cumulativeTime + d,
                 sceneDuration  |-> acc.sceneDuration + d])

\* Variant: the scene start is taken after the scene's images were pushed.
RECURSIVE ExportWalkStartAfterImages(_, _, _, _)
ExportWalkStartAfterImages(sc, k, rate, acc) ==
    IF k > Len(sc) THEN acc
    ELSE LET pushed == PushImagesOnPlayback(SelectedImages(sc[k]), rate,
                          [timeline |-> acc.imageTimeline,
                           cumulativeTime |-> acc.totalDuration,
                           sceneDuration |-> 0])
         IN  ExportWalkStartAfterImages(sc, k + 1, rate,
                [imageTimeline |-> pushed.timeline,
                 sceneTimings  |-> Append(acc.sceneTimings,
                                     [id        |-> k,
                                      startTime |-> pushed.cumulativeTime,
                                      duration  |-> pushed.sceneDuration]),
                 totalDuration |-> pushed.cumulativeTime])

\* handleCreateVideo: timeline, sceneTimings and totalDuration
RECURSIVE ExportWalk(_, _, _, _)
ExportWalk(sc, k, rate, acc) ==
    IF k > Len(sc) THEN acc
    ELSE LET pushed == PushImagesOnPlayback(SelectedImages(sc[k]), rate,
                          [timeline |-> acc.imageTimeline,
                           cumulativeTime |-> acc.totalDuration,
                           sceneDuration |-> 0])
         IN  ExportWalk(sc, k + 1, rate,
                [imageTimeline |-> pushed.timeline,
                 sceneTimings  |-> Append(acc.sceneTimings,
                                     [id        |-> k,
                                      startTime |-> acc.totalDuration,
                                      duration  |-> pushed.sceneDuration]),
                 totalDuration |-> pushed.cumulativeTime])

ExportTimeline(sc, rate) ==
    ExportWalk(sc, 1, rate, [imageTimeline |-> <<>>, sceneTimings |-> <<>>,
                             totalDuration |-> 0])

\* Variant: any image counts, whatever its status and selection.
CanCreateVideoWithAnyImage(sc) == \E k \in 1..Len(sc) : Len(sc[k].images) > 0

\* scenes.flatMap(s => s.images.filter(...)).length > 0
CanCreateVideo(sc) == \E k \in 1..Len(sc) : Len(SelectedImages(sc[k])) > 0

(***************************************************************************)
(* Active-segment lookups                                                  *)
(***************************************************************************)
\* imageTimeline.findIndex(img => t >= img.startTime && t < img.endTime);
\* 0 stands for -1 (not found), positions count from 1.
FindSegmentIndex(timeline, t) ==
    LET hits == {i \in 1..Len(timeline) :
                    t >= timeline[i].startTime /\ t < timeline[i].endTime}
    IN  IF hits = {} THEN 0
        ELSE CHOOSE i \in hits : \A j \in hits : i <= j

\* A lookup that stays on the first segment
FirstSegmentIndex(timeline, videoTime) == IF timeline = <<>> THEN 0 ELSE 1

\* sampler: imageTimeline.find(...)
SamplerSegmentIndex(timeline, videoTime) == FindSegmentIndex(timeline, videoTime)

\* drawFrame: findIndex, then the clamp to the last segment
DrawSegmentIndex(timeline, elapsed, total) ==
    LET found == FindSegmentIndex(timeline, elapsed)
    IN  IF found = 0 /\ elapsed < total THEN Len(timeline) ELSE found

\* drawFrame: sceneTimings.find(t => elapsed >= t.startTime &&
\* elapsed < t.startTime + t.duration); 0 stands for undefined
DrawSceneIndex(sceneTimings, elapsed) ==
    LET hits == {i \in 1..Len(sceneTimings) :
                    /\ elapsed >= sceneTimings[i].startTime
                    /\ elapsed < sceneTimings[i].startTime + sceneTimings[i].duration}
    IN  IF hits = {} THEN 0
        ELSE CHOOSE i \in hits : \A j \in hits : i <= j

\* sampler: sceneStartTimes.findIndex(...); 0 stands for -1
SamplerSceneIndex(startTimes, total, videoTime) ==
    LET nextStart(i) == IF i + 1 <= Len(startTimes) THEN startTimes[i + 1] ELSE total
        hits == {i \in 1..Len(startTimes) :
                    videoTime >= startTimes[i] /\ videoTime < nextStart(i)}
    IN  IF hits = {} THEN 0
        ELSE CHOOSE i \in hits : \A j \in hits : i <= j

(***************************************************************************)
(* Numbers of the overlay rectangle                                        *)
(*                                                                         *)
(* The rectangle is computed in IEEE-754 doubles.  A double is the record  *)
(* [neg, m, e] of value (-1)^neg * m * 2^e, where the significand m has    *)
(* Precision bits, or is 0.  m is wider than a machine integer and is      *)
(* written in limbs of 13 bits, lowest limb first.  Every operation        *)
(* computes the exact result and rounds it, ties to even.  Exponents stay  *)
(* far from the ends of the double range.                                  *)
(***************************************************************************)

\* Bits of the significand of a double
Precision == 53

\* Bits of a limb
LimbBits == 13
Base == 2^LimbBits

RECURSIVE Limbs(_)
Limbs(n) == IF n = 0 THEN <<>> ELSE <<n % Base>> \o Limbs(n \div Base)

Zeros(n) == [k \in 1..n |-> 0]

RECURSIVE Trim(_)
Trim(a) ==
    IF a # <<>> /\ a[Len(a)] = 0 THEN Trim(SubSeq(a, 1, Len(a) - 1)) ELSE a

\* bits of a, a number without leading zero limbs
BitLength(a) ==
    IF a = <<>> THEN 0
    ELSE LimbBits * (Len(a) - 1)
            + CHOOSE b \in 1..LimbBits : 2^(b - 1) <= a[Len(a)] /\ a[Len(a)] < 2^b

RECURSIVE AddLimbs(_, _, _)
AddLimbs(a, b, carry) ==
    IF a = <<>> /\ b = <<>>
    THEN Limbs(carry)
    ELSE LET s == (IF a = <<>> THEN 0 ELSE Head(a))
                  + (IF b = <<>> THEN 0 ELSE Head(b)) + carry
         IN  <<s % Base>> \o AddLimbs(IF a = <<>> THEN a ELSE Tail(a),
                                      IF b = <<>> THEN b ELSE Tail(b), s \div Base)

\* a - b, for a >= b
RECURSIVE SubLimbs(_, _, _)
SubLimbs(a, b, borrow) ==
    IF a = <<>>
    THEN <<>>
    ELSE LET d == Head(a) - (IF b = <<>> THEN 0 ELSE Head(b)) - borrow
         IN  <<d % Base>> \o SubLimbs(Tail(a), IF b = <<>> THEN b ELSE Tail(b),
                                      IF d < 0 THEN 1 ELSE 0)

\* a < b, for numbers without leading zero limbs
RECURSIVE LessLimbs(_, _)
LessLimbs(a, b) ==
    IF Len(a) # Len(b) THEN Len(a) < Len(b)
    ELSE IF a = <<>> THEN FALSE
    ELSE IF a[Len(a)] # b[Len(b)] THEN a[Len(a)] < b[Len(b)]
    ELSE LessLimbs(Trim(SubSeq(a, 1, Len(a) - 1)), Trim(SubSeq(b, 1, Len(b) - 1)))

\* a * k for a machine integer k
RECURSIVE TimesLimbs(_, _, _)
TimesLimbs(a, k, carry) ==
    IF a = <<>>
    THEN Limbs(carry)
    ELSE LET s == Head(a) * k + carry
         IN  <<s % Base>> \o TimesLimbs(Tail(a), k, s \div Base)

\* quotient and remainder of a by a machine integer k, from the highest limb
RECURSIVE DivLimbs(_, _, _)
DivLimbs(a, k, r) ==
    IF a = <<>>
    THEN [q |-> <<>>, r |-> r]
    ELSE LET t == r * Base + a[Len(a)]
             low == DivLimbs(SubSeq(a, 1, Len(a) - 1), k, t % k)
         IN  [q |-> low.q \o <<t \div k>>, r |-> low.r]

\* a * 2^s
ShiftLeft(a, s) ==
    IF a = <<>> THEN <<>>
    ELSE Zeros(s \div LimbBits) \o TimesLimbs(a, 2^(s % LimbBits), 0)

\* a \div 2^s, and whether a bit was lost
ShiftRight(a, s) ==
    LET whole == s \div LimbBits
        d == DivLimbs(SubSeq(a, whole + 1, Len(a)), 2^(s % LimbBits), 0)
    IN  [q |-> Trim(d.q),
         inexact |-> d.r # 0 \/ \E i \in 1..whole : i <= Len(a) /\ a[i] # 0]

Zero == [neg |-> FALSE, m |-> <<>>, e |-> 0]

\* m * 2^e rounded to Precision bits, ties to even; inexact says that the
\* exact value has bits below m
Round(neg, m, e, inexact) ==
    LET drop == BitLength(m) - Precision
    IN  IF m = <<>> THEN Zero
        ELSE IF drop <= 0
        THEN [neg |-> neg, m |-> ShiftLeft(m, -drop), e |-> e + drop]
        ELSE LET s == ShiftRight(m, drop - 1)
                 kept == Trim(DivLimbs(s.q, 2, 0).q)
                 up == s.q[1] % 2 = 1
                       /\ (inexact \/ s.inexact \/ kept[1] % 2 = 1)
                 r == IF up THEN AddLimbs(kept, <<1>>, 0) ELSE kept
             IN  IF BitLength(r) > Precision
                 THEN [neg |-> neg, m |-> Trim(DivLimbs(r, 2, 0).q),
                       e |-> e + drop + 1]
                 ELSE [neg |-> neg, m |-> r, e |-> e + drop]

\* the double of an integer
Number(n) == Round(n < 0, Limbs(IF n < 0 THEN -n ELSE n), 0, FALSE)

Negate(a) == IF a = Zero THEN Zero ELSE [a EXCEPT !.neg = ~a.neg]

\* a + b
Plus(a, b) ==
    LET e == IF a.e < b.e THEN a.e ELSE b.e
        am == ShiftLeft(a.m, a.e - e)
        bm == ShiftLeft(b.m, b.e - e)
        smaller == LessLimbs(am, bm)
    IN  IF a.m = <<>> THEN b
        ELSE IF b.m = <<>> THEN a
        ELSE Round(IF smaller THEN b.neg ELSE a.neg,
                   IF a.neg = b.neg THEN AddLimbs(am, bm, 0)
                   ELSE IF smaller THEN Trim(SubLimbs(bm, am, 0))
                   ELSE Trim(SubLimbs(am, bm, 0)),
                   e, FALSE)

\* a - b
Minus(a, b) == Plus(a, Negate(b))

\* |a| < |b|
Smaller(a, b) ==
    IF a.m = <<>> \/ b.m = <<>> THEN a.m = <<>> /\ b.m # <<>>
    ELSE IF a.e # b.e THEN a.e < b.e
    ELSE LessLimbs(a.m, b.m)

\* a < b
LessThan(a, b) ==
    IF a.neg # b.neg THEN a.neg
    ELSE IF a.neg THEN Smaller(b, a)
    ELSE Smaller(a, b)

\* a * k for an integer k > 0
Times(a, k) == Round(a.neg, TimesLimbs(a.m, k, 0), a.e, FALSE)

\* a / k for an integer k with 0 < k < 2^(LimbBits - 2): the dividend is
\* extended until the quotient has more than Precision bits
Over(a, k) ==
    LET d == DivLimbs(ShiftLeft(a.m, LimbBits - 1), k, 0)
    IN  Round(a.neg, Trim(d.q), a.e - (LimbBits - 1), d.r # 0)

(***************************************************************************)
(* The timelines in doubles                                                *)
(*                                                                         *)
(* The walks above count in whole ticks.  The code holds every duration    *)
(* and every time of a timeline as a double, and rounds after each         *)
(* division and each addition; the walks below compute the same timelines  *)
(* with that rounding.                                                     *)
(***************************************************************************)
\* The entries of speedOptions whose double is exact: 0.75, 1, 1.25 and 2
BinaryRates == { [num |-> 3, den |-> 4], RateOne, [num |-> 5, den |-> 4],
                 [num |-> 2, den |-> 1] }

\* image.duration: the double nearest to the stored decimal (parseFloat or
\* the default 3); a second has 40 ticks
Seconds(ticks) == Over(Number(ticks), 40)

\* a * rate, for a rate num/den whose den is a power of two
MultipliedByRate(a, rate) == Over(Times(a, rate.num), rate.den)

\* image.duration / playbackRate, for a rate num/den whose den is a power
\* of two
DividedByRate(a, rate) == Over(Times(a, rate.den), rate.num)

\* VideoPlayer useMemo: selectedImages.forEach(image => { timeline.push(...);
\* cumulativeTime += image.duration })
RECURSIVE PushImagesNumber(_, _)
PushImagesNumber(images, acc) ==
    IF images = <<>> THEN acc
    ELSE LET d == Seconds(Head(images).duration)
         IN  PushImagesNumber(Tail(images),
                [timeline |-> Append(acc.timeline,
                                [url       |-> Head(images).url,
                                 startTime |-> acc.cumulativeTime,
                                 endTime   |-> Plus(acc.cumulativeTime, d)]),
                 cumulativeTime |-> Plus(acc.cumulativeTime, d)])

\* VideoPlayer useMemo: scenes.forEach(scene => { startTimes.push(...); ... })
RECURSIVE PreviewWalkNumber(_, _)
PreviewWalkNumber(sc, acc) ==
    IF sc = <<>> THEN acc
    ELSE LET pushed == PushImagesNumber(SelectedImages(Head(sc)),
                          [timeline |-> acc.imageTimeline,
                           cumulativeTime |-> acc.totalDuration])
         IN  PreviewWalkNumber(Tail(sc),
                [imageTimeline   |-> pushed.timeline,
                 sceneStartTimes |-> Append(acc.sceneStartTimes, acc.totalDuration),
                 totalDuration   |-> pushed.cumulativeTime])

PreviewTimelineNumber(sc) ==
    PreviewWalkNumber(sc, [imageTimeline |-> <<>>, sceneStartTimes |-> <<>>,
                           totalDuration |-> Zero])

\* handleCreateVideo: selectedImages.forEach(image => { const
\* durationOnPlayback = image.duration / playbackRate; ... })
RECURSIVE PushImagesOnPlaybackNumber(_, _, _)
PushImagesOnPlaybackNumber(images, rate, acc) ==
    IF images = <<>> THEN acc
    ELSE LET d == DividedByRate(Seconds(Head(images).duration), rate)
         IN  PushImagesOnPlaybackNumber(Tail(images), rate,
                [timeline |-> Append(acc.timeline,
                                [url       |-> Head(images).url,
                                 startTime |-> acc.cumulativeTime,
                                 endTime   |-> Plus(acc.cumulativeTime, d)]),
                 cumulativeTime |-> Plus(acc.cumulativeTime, d),
                 sceneDuration  |-> Plus(acc.sceneDuration, d)])

\* handleCreateVideo: timeline, sceneTimings and totalDuration
RECURSIVE ExportWalkNumber(_, _, _, _)
ExportWalkNumber(sc, k, rate, acc) ==
    IF k > Len(sc) THEN acc
    ELSE LET pushed == PushImagesOnPlaybackNumber(SelectedImages(sc[k]), rate,
                          [timeline |-> acc.imageTimeline,
                           cumulativeTime |-> acc.totalDuration,
                           sceneDuration |-> Zero])
         IN  ExportWalkNumber(sc, k + 1, rate,
                [imageTimeline |-> pushed.timeline,
                 sceneTimings  |-> Append(acc.sceneTimings,
                                     [id        |-> k,
                                      startTime |-> acc.totalDuration,
                                      duration  |-> pushed.sceneDuration]),
                 totalDuration |-> pushed.cumulativeTime])

ExportTimelineNumber(sc, rate) ==
    ExportWalkNumber(sc, 1, rate, [imageTimeline |-> <<>>, sceneTimings |-> <<>>,
                                   totalDuration |-> Zero])

\* imageTimeline.findIndex(img => t >= img.startTime && t < img.endTime) on
\* doubles; 0 stands for -1
FindSegmentIndexNumber(timeline, t) ==
    LET hits == {i \in 1..Len(timeline) :
                    /\ ~LessThan(t, timeline[i].startTime)
                    /\ LessThan(t, timeline[i].endTime)}
    IN  IF hits = {} THEN 0
        ELSE CHOOSE i \in hits : \A j \in hits : i <= j

(***************************************************************************)
(* Initial state                                                           *)
(***************************************************************************)
\* handleOverlayFileChange: the overlay of a chosen file, with the default
\* rectangle x: 10, y: 10, width: 30, height: 30 in percent of the container
DefaultRect ==
    [x |-> Number(10), y |-> Number(10), width |-> Number(30), height |-> Number(30)]

NewOverlay(url, type) ==
    [url |-> url, type |-> type, x |-> DefaultRect.x, y |-> DefaultRect.y,
     width |-> DefaultRect.width, height |-> DefaultRect.height]

NoOverlay == NewOverlay(NoUrl, "image")

\* The background-music fields of a scene: backgroundMusicUrl, -TrimStart,
\* -TrimEnd, -Duration and -Volume (in hundredths), with Null for a field
\* that is null or absent; `length` is the length of the file behind the url.
NoMusic == [url |-> NoUrl, length |-> 0, trimStart |-> Null, trimEnd |-> Null,
            duration |-> Null, volume |-> Null]

EmptyScene == [images |-> <<>>, overlay |-> NoOverlay, music |-> NoMusic]

\* The base64 data of the i-th image of scene s: every image is a media
\* reference of its own.
MediaUrl(s, i) == 10 * s + i

TotalImages(sc) ==
    LET RECURSIVE Count(_)
        Count(k) == IF k = 0 THEN 0 ELSE Len(sc[k].images) + Count(k - 1)
    IN  Count(Len(sc))

\* imageTimeline[0]?.url || null
FirstImageUrl(sc) ==
    LET timeline == PreviewTimeline(sc).imageTimeline
    IN  IF timeline = <<>> THEN NoUrl ELSE timeline[1].url

(***************************************************************************)
(* The narration element (audioRef.current) as the player drives it        *)
(***************************************************************************)
\* audioRef.current.currentTime = t; the position stays within the media
Seek(el, t, cfg) ==
    [el EXCEPT !.time = IF t < 0 THEN 0 ELSE Min(t, cfg.mediaLength)]

\* audioRef.current.ended
Ended(el, cfg) == el.time >= cfg.mediaLength

\* audioRef.current.play(); an element that has ended starts over
Play(el, cfg) ==
    [time |-> IF Ended(el, cfg) THEN 0 ELSE el.time, paused |-> FALSE]

\* audioRef.current.pause()
Pause(el) == [el EXCEPT !.paused = TRUE]

\* The body of the sampler effect for the transport state `state`: what it
\* does to the element, and whether it leaves a timer scheduled.
SamplerEffect(state, el, cfg) ==
    IF ~cfg.audioFile THEN [el |-> el, interval |-> FALSE]
    ELSE IF state = "playing" THEN [el |-> Play(el, cfg), interval |-> TRUE]
    ELSE [el |-> Pause(el), interval |-> FALSE]

\* The effect on [imageTimeline, trimStart]: what it does to the element.
ResetElement(el, cfg) == IF cfg.audioFile THEN Seek(el, cfg.trimStart, cfg) ELSE el

(***************************************************************************)
(* The subordinate tracks: background music and overlay video              *)
(***************************************************************************)
\* The url of the music file uploaded to scene s
MusicUrl(s) == 200 + s

\* currentScene.backgroundMusicVolume ?? 0.2, in hundredths
DefaultMusicVolume == 20

\* v ?? d
OrElse(v, d) == IF v = Null THEN d ELSE v

\* scenes[currentSceneIndex] is defined
HasCurrentScene(sc, idx) == idx + 1 \in 1..Len(sc)

\* bgAudio.src = musicUrl: the element loads the file, paused at its start
LoadMusic(bg, music) ==
    [bg EXCEPT !.src = music.url, !.length = music.length, !.time = 0,
               !.paused = TRUE]

\* bgAudio.currentTime = t
SeekMusic(bg, t) == [bg EXCEPT !.time = IF t < 0 THEN 0 ELSE Min(t, bg.length)]

\* The blob url of a file uploaded to scene s that the browser cannot decode.
UndecodableUrl(s) == 300 + s

\* The element can play the file at this url.
Decodes(url) == url < 300

\* bgAudio.play(); an element that has ended starts over.  For a file
\* that does not decode the promise rejects, which .catch(console.error)
\* logs, and the element stays paused.
PlayMusic(bg) ==
    IF ~Decodes(bg.src) THEN bg
    ELSE [bg EXCEPT !.time = IF bg.time >= bg.length THEN 0 ELSE bg.time,
                    !.paused = FALSE]

\* The effect on [currentSceneIndex, scenes, playbackState] that drives the
\* background music.  tr holds the tracks as the render found them.
BgMusicEffect(tr, sc, idx, state) ==
    IF ~HasCurrentScene(sc, idx) THEN tr
    ELSE LET music == sc[idx + 1].music
         IN  IF state = "playing"
             THEN IF music.url # NoUrl
                  THEN LET loaded  == IF tr.last # music.url
                                      THEN LoadMusic(tr.bg, music) ELSE tr.bg
                           audible == [loaded EXCEPT !.volume =
                                          OrElse(music.volume, DefaultMusicVolume)]
                           started == IF audible.paused
                                      THEN PlayMusic(SeekMusic(audible,
                                               OrElse(music.trimStart, 0)))
                                      ELSE audible
                       IN  [tr EXCEPT !.bg = started, !.last = music.url]
                  ELSE [tr EXCEPT !.bg.paused = TRUE, !.last = NoUrl]
             ELSE [tr EXCEPT !.bg.paused = TRUE]

\* A cleanup that leaves the timer scheduled
TimersWithoutCleanup(timers, ref) == timers

\* cleanup(): the timer held by intervalRef.current, if any, is cleared
TimersAfterCleanup(timers, ref) == IF ref THEN timers - 1 ELSE timers

\* The sampler effect, as far as the timers and the subordinate tracks go:
\* the cleanup of its previous run, then its body.  ref is intervalRef.current
\* as the render found it.
SamplerTracks(tr, cfg, state, ref) ==
    LET cleared == [tr EXCEPT !.timers = TimersAfterCleanup(tr.timers, ref)]
    IN  IF ~cfg.audioFile THEN cleared
        ELSE IF state = "playing" THEN [cleared EXCEPT !.timers = @ + 1]
        ELSE [cleared EXCEPT !.bg.paused = TRUE, !.overlayPaused = TRUE]

\* The overlay <video> is rendered for a current scene with a video overlay.
HasOverlayVideo(sc, idx) ==
    /\ HasCurrentScene(sc, idx)
    /\ sc[idx + 1].overlay.url # NoUrl
    /\ sc[idx + 1].overlay.type = "video"

\* The effect on [playbackState, currentScene, currentSceneIndex]:
\* overlayVideo.play().catch(console.error) leaves a video that does not
\* decode paused.
OverlayEffect(tr, sc, idx, state) ==
    [tr EXCEPT !.overlayPaused =
        ~(/\ HasOverlayVideo(sc, idx)
          /\ state = "playing"
          /\ Decodes(sc[idx + 1].overlay.url))]

\* A render whose later effects are lost when the music does not start.
TracksRenderUntilRejection(tr, sc, cfg, state, idx, ref, runMusic, runSampler) ==
    LET m == IF runMusic THEN BgMusicEffect(tr, sc, idx, state) ELSE tr
        s == IF runSampler THEN SamplerTracks(m, cfg, state, ref) ELSE m
    IN  IF state = "playing" /\ m.bg.src # NoUrl /\ m.bg.paused THEN m
        ELSE OverlayEffect(s, sc, idx, state)

\* The effects of one render on the tracks, in the order of their definition.
TracksRender(tr, sc, cfg, state, idx, ref, runMusic, runSampler) ==
    LET m == IF runMusic THEN BgMusicEffect(tr, sc, idx, state) ELSE tr
        s == IF runSampler THEN SamplerTracks(m, cfg, state, ref) ELSE m
    IN  OverlayEffect(s, sc, idx, state)

\* The tracks of a VideoPlayer that has not run an effect yet
FreshTracks ==
    [bg |-> [src |-> NoUrl, length |-> 0, time |-> 0, paused |-> TRUE,
             volume |-> 100],
     last |-> NoUrl, overlayPaused |-> TRUE, timers |-> 0]

\* The tracks as they are now
Tracks ==
    [bg |-> bgAudio, last |-> lastPlayedMusicUrl, overlayPaused |-> overlayPaused,
     timers |-> liveTimers]

SetTracks(tr) ==
    /\ bgAudio' = tr.bg
    /\ lastPlayedMusicUrl' = tr.last
    /\ overlayPaused' = tr.overlayPaused
    /\ liveTimers' = tr.timers

\* The VideoPlayer right after mounting: the initial useState values, then
\* the effects.
MountedPlayer(sc, cfg) ==
    LET fresh == [time |-> 0, paused |-> TRUE]
        after == SamplerEffect("paused", ResetElement(fresh, cfg), cfg)
    IN  [playbackState |-> "paused", el |-> after.el, interval |-> after.interval,
         imageBuffer |-> <<FirstImageUrl(sc), NoUrl>>, activeBufferIndex |-> 0,
         currentSceneIndex |-> 0,
         tracks |-> TracksRender(FreshTracks, sc, cfg, "paused", 0, FALSE, TRUE, TRUE)]

PlayerMounted(sc, cfg) ==
    LET m == MountedPlayer(sc, cfg)
    IN  /\ playbackState = m.playbackState
        /\ audioTime = m.el.time
        /\ audioPaused = m.el.paused
        /\ intervalRef = m.interval
        /\ imageBuffer = m.imageBuffer
        /\ activeBufferIndex = m.activeBufferIndex
        /\ currentSceneIndex = m.currentSceneIndex
        /\ bgAudio = m.tracks.bg
        /\ lastPlayedMusicUrl = m.tracks.last
        /\ overlayPaused = m.tracks.overlayPaused
        /\ liveTimers = m.tracks.timers

\* The editor view is taken down and the VideoPlayer with it: the cleanup of
\* its effects runs and its elements leave the document.  The player that is
\* mounted with the next editor view starts afresh.
Remount(sc, cfg) ==
    LET m == MountedPlayer(sc, cfg)
    IN  /\ playbackState' = m.playbackState
        /\ audioTime' = m.el.time
        /\ audioPaused' = m.el.paused
        /\ intervalRef' = m.interval
        /\ imageBuffer' = m.imageBuffer
        /\ activeBufferIndex' = m.activeBufferIndex
        /\ currentSceneIndex' = m.currentSceneIndex
        /\ SetTracks([m.tracks EXCEPT !.timers =
                         TimersAfterCleanup(liveTimers, intervalRef)])

\* The effect on [imageTimeline, trimStart], followed by the sampler effect,
\* which depends on both too: they run whenever the scene list or trimStart
\* is replaced.  `el` is the element as the handler left it; the effect on
\* the background music runs too when it is the scene list that was replaced.
ResetEffect(sc, cfg, el, scenesReplaced) ==
    LET after == SamplerEffect(playbackState, ResetElement(el, cfg), cfg)
    IN  /\ imageBuffer' = <<FirstImageUrl(sc), NoUrl>>
        /\ activeBufferIndex' = 0
        /\ audioTime' = after.el.time
        /\ audioPaused' = after.el.paused
        /\ intervalRef' = after.interval
        /\ SetTracks(TracksRender(Tracks, sc, cfg, playbackState,
                                  currentSceneIndex, intervalRef,
                                  scenesReplaced, TRUE))
        /\ UNCHANGED <<playbackState, currentSceneIndex>>

\* The sampler effect alone: runs when trimEnd is replaced.
SamplerEffectRerun(cfg, el) ==
    LET after == SamplerEffect(playbackState, el, cfg)
    IN  /\ audioTime' = after.el.time
        /\ audioPaused' = after.el.paused
        /\ intervalRef' = after.interval
        /\ SetTracks(TracksRender(Tracks, scenes, cfg, playbackState,
                                  currentSceneIndex, intervalRef, FALSE, TRUE))
        /\ UNCHANGED <<playbackState, imageBuffer, activeBufferIndex,
                       currentSceneIndex>>

\* audioRef.current, as it is now
Element == [time |-> audioTime, paused |-> audioPaused]

\* No source has been started: the value before an AudioContext exists.
NoAudioGraph == [narration |-> <<>>, music |-> <<>>]

ExportInit ==
    /\ isExporting = FALSE
    /\ videoReady = FALSE
    /\ exportedVideoUrl = NoUrl
    /\ exportedVideoBlob = NoUrl
    /\ exportMessage = ""
    /\ exportPc = "idle"
    /\ createResult = "none"
    /\ pendingPreloads = {}
    /\ mediaElements = {}
    /\ recorderState = "inactive"
    /\ stoppedByDrawLoop = FALSE
    /\ elapsedTime = 0
    /\ framesDrawn = 0
    /\ audioGraph = NoAudioGraph

ConfigInit ==
    /\ playbackRate = RateOne
    /\ videoConfig = [audioFile |-> FALSE, mediaLength |-> 0, trimStart |-> 0,
                      trimEnd |-> Null]
    /\ audioDuration = 0

(***************************************************************************)
(* Generation requests and the messages of their failures                  *)
(***************************************************************************)
\* What a request settles with: a result, or an Error whose message is
\* given by the phrases it contains.
Success == [kind |-> "success", phrases |-> {}]
InvalidKeyFailure == [kind |-> "credential", phrases |-> {"API key"}]
QuotaFailure ==
    [kind |-> "quota", phrases |-> {"429", "RESOURCE_EXHAUSTED", "quota"}]
\* "AI không trả về kết quả nào. Điều này có thể do bộ lọc an toàn ..."
ContentFilterFailure == [kind |-> "content_filter", phrases |-> {}]
\* "Không thể tạo ảnh cho cảnh. Phản hồi từ AI không chứa dữ liệu hình ảnh ..."
MalformedFailure == [kind |-> "malformed", phrases |-> {}]
\* `AI đã trả về văn bản thay vì ảnh. ... Phản hồi của AI: "${textResponse}"`
\* when the quoted reply happens to hold the digits 403
MalformedQuotingFailure == [kind |-> "malformed", phrases |-> {"403"}]

Failures == {InvalidKeyFailure, QuotaFailure, ContentFilterFailure,
             MalformedFailure, MalformedQuotingFailure}
Outcomes == {Success} \cup Failures

\* String.prototype.toLowerCase, on the phrases of a message
LowerPhrase(phrase) ==
    CASE phrase = "API key" -> "api key"
      [] phrase = "API Key" -> "api key"
      [] phrase = "RESOURCE_EXHAUSTED" -> "resource_exhausted"
      [] OTHER -> phrase
ToLowerCase(phrases) == {LowerPhrase(phrase) : phrase \in phrases}

\* String.prototype.includes
Includes(phrases, phrase) == phrase \in phrases

\* errorMessage.toLowerCase().includes('api key') || errorMessage.includes('403')
\*   || errorMessage.includes('permission denied')
IsKeyMessage(phrases) ==
    \/ Includes(ToLowerCase(phrases), "api key")
    \/ Includes(phrases, "403")
    \/ Includes(phrases, "permission denied")

\* parseGeminiError: the friendly message, by its phrases
ParseGeminiError(failure) ==
    IF \/ Includes(failure.phrases, "429")
       \/ Includes(failure.phrases, "RESOURCE_EXHAUSTED")
       \/ Includes(failure.phrases, "quota")
    THEN [text |-> "quota", phrases |-> {"429", "API Key"}]
    ELSE IF IsKeyMessage(failure.phrases)
    THEN [text |-> "invalid_key", phrases |-> {"API Key"}]
    ELSE [text |-> failure.kind, phrases |-> failure.phrases]

\* markApiKeyAsInvalid: the stored key gets status 'invalid'
MarkApiKeyAsInvalid(status) == "invalid"

\* The id of a scene that the list holds no more.
NoScene == 0

\* A call of generateSceneImage that has not settled: the scene and image
\* its updateImageStatus calls name, and whether handleBatchGenerate awaits it.
Request(s, i, batch) == [scene |-> s, image |-> i, batch |-> batch]

\* The requests of the images that are being generated in sc.
RequestsOf(sc) ==
    UNION {{Request(s, i, FALSE) :
                i \in {j \in 1..Len(sc[s].images) :
                          sc[s].images[j].status = "generating"}} :
           s \in 1..Len(sc)}

\* No drag is going on: document has no mousemove listener of the player.
NoListener == [scenes |-> <<>>, scene |-> NoScene]

GenerationInit(sc) ==
    /\ referenceImages = 1
    /\ isBatchGenerating = FALSE
    /\ batchQueue = <<>>
    /\ requests = RequestsOf(sc)
    /\ keyStatus = "valid"
    /\ isLoading = FALSE
    /\ generatedImage = FALSE
    /\ mouseListener = NoListener

Init ==
    /\ scenes = <<>>
    /\ ConfigInit
    /\ PlayerMounted(scenes, videoConfig)
    /\ ExportInit
    /\ GenerationInit(scenes)

(***************************************************************************)
(* Scene step: building the scene list                                     *)
(***************************************************************************)
\* The text of a reply of the service, as the tokens JSON.parse reads: the
\* punctuation, string literals and number literals.  v tells the literals
\* apart.
Punct(c) == [t |-> c, v |-> 0]
Str(v) == [t |-> "string", v |-> v]
Num(v) == [t |-> "number", v |-> v]

\* The values JSON.parse returns
JsonString(v) == [kind |-> "string", v |-> v, items |-> <<>>]
JsonNumber(v) == [kind |-> "number", v |-> v, items |-> <<>>]
JsonObject == [kind |-> "object", v |-> 0, items |-> <<>>]
JsonArray(items) == [kind |-> "array", v |-> 0, items |-> items]

\* JSON.parse throws a SyntaxError
SyntaxError == [ok |-> FALSE, value |-> JsonObject, next |-> 0]

\* JSON.parse, for texts of literals, arrays and the empty object: the value
\* that starts at pos and the position after it ...
RECURSIVE ParseValue(_, _)
RECURSIVE ParseElements(_, _, _)
ParseValue(text, pos) ==
    IF pos > Len(text) THEN SyntaxError
    ELSE LET tok == text[pos]
         IN  CASE tok.t = "string" ->
                    [ok |-> TRUE, value |-> JsonString(tok.v), next |-> pos + 1]
               [] tok.t = "number" ->
                    [ok |-> TRUE, value |-> JsonNumber(tok.v), next |-> pos + 1]
               [] tok.t = "{" ->
                    IF pos < Len(text) /\ text[pos + 1].t = "}"
                    THEN [ok |-> TRUE, value |-> JsonObject, next |-> pos + 2]
                    ELSE SyntaxError
               [] tok.t = "[" ->
                    IF pos < Len(text) /\ text[pos + 1].t = "]"
                    THEN [ok |-> TRUE, value |-> JsonArray(<<>>), next |-> pos + 2]
                    ELSE ParseElements(text, pos + 1, <<>>)
               [] OTHER -> SyntaxError

\* ... and the elements of an array from pos, after those in items
ParseElements(text, pos, items) ==
    LET el == ParseValue(text, pos)
    IN  IF ~el.ok \/ el.next > Len(text) THEN SyntaxError
        ELSE IF text[el.next].t = ","
        THEN ParseElements(text, el.next + 1, Append(items, el.value))
        ELSE IF text[el.next].t = "]"
        THEN [ok |-> TRUE, value |-> JsonArray(Append(items, el.value)),
              next |-> el.next + 1]
        ELSE SyntaxError

\* JSON.parse(jsonString)
JsonParse(text) ==
    LET parsed == ParseValue(text, 1)
    IN  IF parsed.ok /\ parsed.next = Len(text) + 1 THEN parsed ELSE SyntaxError

\* Replies of the service to generateContent: a text, or an Error
TextReply(text) == [kind |-> "text", text |-> text, phrases |-> {}]
FailedReply(failure) == [kind |-> "failure", text |-> <<>>, phrases |-> failure.phrases]

\* What splitStoryIntoScenes settles with: the descriptions, or an Error
Descriptions(list) == [ok |-> TRUE, descriptions |-> list, phrases |-> {}]
Thrown(phrases) == [ok |-> FALSE, descriptions |-> <<>>, phrases |-> phrases]

\* Every array passes
IsArray(value) == value.kind = "array"

\* Array.isArray(scenes) && scenes.every(s => typeof s === 'string')
IsArrayOfStrings(value) ==
    /\ value.kind = "array"
    /\ \A k \in 1..Len(value.items) : value.items[k].kind = "string"

\* splitStoryIntoScenes
SplitStoryIntoScenes(reply) ==
    IF reply.kind = "failure" THEN Thrown(reply.phrases)
    ELSE IF reply.text = <<>> THEN Thrown({})
    ELSE LET parsed == JsonParse(reply.text)
         IN  IF ~parsed.ok THEN Thrown({})
             ELSE IF IsArrayOfStrings(parsed.value)
             THEN Descriptions([k \in 1..Len(parsed.value.items) |->
                                   parsed.value.items[k].v])
             ELSE Thrown({})

\* sceneDescriptions.map((desc, i) => ({ id, description: desc, images: [] }))
NewScene(desc) ==
    [description |-> desc, images |-> <<>>, overlay |-> NoOverlay, music |-> NoMusic]

\* handleSplitScenes, for a story text and a key, from the point where
\* splitStoryIntoScenes has settled with result: the whole list is replaced
\* by the scenes of the descriptions, or the call has failed and, for a
\* message about the key, the key is marked
HandleSplitScenes(result) ==
    IF result.ok
    THEN /\ scenes' = [k \in 1..Len(result.descriptions) |->
                          NewScene(result.descriptions[k])]
         /\ requests' = {[r EXCEPT !.scene = NoScene] : r \in requests}
         /\ batchQueue' = [k \in 1..Len(batchQueue) |-> NoScene]
         /\ ResetEffect(scenes', videoConfig, Element, TRUE)
         /\ UNCHANGED <<mouseListener, referenceImages, isBatchGenerating,
                        keyStatus, isLoading, generatedImage, cfgVars, exportVars>>
    ELSE /\ keyStatus' = IF IsKeyMessage(result.phrases)
                         THEN MarkApiKeyAsInvalid(keyStatus) ELSE keyStatus
         /\ UNCHANGED <<scenes, mouseListener, referenceImages, isBatchGenerating,
                        batchQueue, requests, isLoading, generatedImage,
                        cfgVars, playerVars, exportVars>>

\* The reply that is the array of the first n descriptions
ArrayReply(n) ==
    TextReply(<<Punct("[")>>
              \o [k \in 1..(2 * n - 1) |->
                     IF k % 2 = 1 THEN Str((k + 1) \div 2) ELSE Punct(",")]
              \o <<Punct("]")>>)

\* What the split settles with for the arrays of up to MaxScenes descriptions
ArraySplits == [n \in 1..MaxScenes |-> SplitStoryIntoScenes(ArrayReply(n))]

\* prevScenes.map(scene => scene.id === sceneId ? {...scene, images} : scene)
MapScene(sc, s, images) ==
    [k \in 1..Len(sc) |-> IF k = s THEN [sc[k] EXCEPT !.images = images] ELSE sc[k]]

\* images.map(img => img.id === imageId ? image : img)
MapImage(images, i, image) ==
    [j \in 1..Len(images) |-> IF j = i THEN image ELSE images[j]]

\* handleFileChange: an uploaded file becomes a done, selected image
HandleFileChange(s) ==
    /\ s \in 1..Len(scenes)
    /\ TotalImages(scenes) < MaxImages
    /\ LET newImage == [url |-> MediaUrl(s, Len(scenes[s].images) + 1),
                         isSelected |-> TRUE, status |-> "done",
                         duration |-> DefaultDuration]
       IN  scenes' = MapScene(scenes, s, Append(scenes[s].images, newImage))
    /\ ResetEffect(scenes', videoConfig, Element, TRUE)
    /\ UNCHANGED <<genVars, cfgVars, exportVars>>

\* updateImageStatus
UpdateImageStatus(sc, s, i, newStatus, newUrl) ==
    IF s \notin 1..Len(sc) \/ i \notin 1..Len(sc[s].images) THEN sc
    ELSE
    LET img == sc[s].images[i]
        updated == [img EXCEPT !.status = newStatus,
                               !.url = IF newUrl # NoUrl THEN newUrl ELSE @,
                               !.isSelected = IF newStatus = "done" THEN TRUE ELSE @]
    IN  MapScene(sc, s, MapImage(sc[s].images, i, updated))

\* Variant: only a done image keeps a scene out of the batch.
ShouldGenerateDespiteGenerating(scene) ==
    \A j \in 1..Len(scene.images) : scene.images[j].status # "done"

\* scene.images.every(img => img.status !== 'done' && img.status !== 'generating')
ShouldGenerate(scene) ==
    \A j \in 1..Len(scene.images) :
        scene.images[j].status # "done" /\ scene.images[j].status # "generating"

Placeholder == [url |-> NoUrl, isSelected |-> TRUE, status |-> "generating",
                duration |-> DefaultDuration]

ScenesWithPlaceholders(sc) ==
    [k \in 1..Len(sc) |->
        IF ShouldGenerate(sc[k]) THEN [sc[k] EXCEPT !.images = <<Placeholder>>]
        ELSE sc[k]]

\* placeholders.push({ sceneId: scene.id, image: placeholder }), in scene order
BatchTargets(sc) ==
    SelectSeq([k \in 1..Len(sc) |-> k], LAMBDA k : ShouldGenerate(sc[k]))

\* runImageGeneration without a reference image: every placeholder is an error
ScenesWithFailedPlaceholders(sc) ==
    [k \in 1..Len(sc) |->
        IF ShouldGenerate(sc[k])
        THEN [sc[k] EXCEPT !.images = <<[Placeholder EXCEPT !.status = "error"]>>]
        ELSE sc[k]]

\* Variant: the requests of all the placeholders are started together.
IssuedTogether(queue) == {Request(queue[k], 1, TRUE) : k \in 1..Len(queue)}

\* for (const scene of scenes) { ... await runImageGeneration(...) }: the
\* request that is started before the loop waits again
IssuedByLoop(queue) ==
    IF queue = <<>> THEN {} ELSE {Request(Head(queue), 1, TRUE)}

\* ... and the placeholders the loop has still to reach
WaitingInLoop(queue) == IF queue = <<>> THEN <<>> ELSE Tail(queue)

\* handleBatchGenerate, up to its first await that waits for the service
HandleBatchGenerate ==
    /\ ~isBatchGenerating
    /\ \E k \in 1..Len(scenes) : ShouldGenerate(scenes[k])
    /\ TotalImages(ScenesWithPlaceholders(scenes)) <= MaxImages
    /\ IF referenceImages = 0
       THEN /\ scenes' = ScenesWithFailedPlaceholders(scenes)
            /\ UNCHANGED <<isBatchGenerating, batchQueue, requests>>
       ELSE /\ scenes' = ScenesWithPlaceholders(scenes)
            /\ isBatchGenerating' = TRUE
            /\ requests' = requests \cup IssuedByLoop(BatchTargets(scenes))
            /\ batchQueue' = WaitingInLoop(BatchTargets(scenes))
    /\ ResetEffect(scenes', videoConfig, Element, TRUE)
    /\ UNCHANGED <<mouseListener, referenceImages, keyStatus, isLoading, generatedImage,
                   cfgVars, exportVars>>

\* Variant: a failed request leaves its image as it was.
SettledStatusKeepingFailures(ok, status) == IF ok THEN "done" ELSE status

\* updateImageStatus(..., 'done', newImageBase64) in the try block,
\* updateImageStatus(..., 'error') in the catch block
SettledStatus(ok, status) == IF ok THEN "done" ELSE "error"

\* scenes after the request r has settled with outcome
ScenesAfterRequest(sc, r, outcome) ==
    LET ok == outcome.kind = "success"
        status == IF r.scene \in 1..Len(sc) /\ r.image \in 1..Len(sc[r.scene].images)
                  THEN sc[r.scene].images[r.image].status ELSE "idle"
    IN  UpdateImageStatus(sc, r.scene, r.image, SettledStatus(ok, status),
                          IF ok THEN MediaUrl(r.scene, r.image) ELSE NoUrl)

\* runImageGeneration, from the settling of its request; when
\* handleBatchGenerate awaits it, the loop goes on to its next placeholder
RunImageGeneration(r, outcome) ==
    /\ r \in requests
    /\ scenes' = ScenesAfterRequest(scenes, r, outcome)
    /\ keyStatus' = IF outcome.kind # "success" /\ IsKeyMessage(outcome.phrases)
                    THEN MarkApiKeyAsInvalid(keyStatus) ELSE keyStatus
    /\ IF r.batch
       THEN /\ requests' = (requests \ {r}) \cup IssuedByLoop(batchQueue)
            /\ batchQueue' = WaitingInLoop(batchQueue)
            /\ isBatchGenerating' = (batchQueue # <<>>)
       ELSE /\ requests' = requests \ {r}
            /\ UNCHANGED <<batchQueue, isBatchGenerating>>
    /\ ResetEffect(scenes', videoConfig, Element, TRUE)
    /\ UNCHANGED <<mouseListener, referenceImages, isLoading, generatedImage, cfgVars, exportVars>>

\* handleRetryGenerate: an error image is generated again
HandleRetryGenerate(s, i) ==
    /\ s \in 1..Len(scenes)
    /\ i \in 1..Len(scenes[s].images)
    /\ scenes[s].images[i].status = "error"
    /\ IF referenceImages = 0
       THEN /\ scenes' = UpdateImageStatus(
                            UpdateImageStatus(scenes, s, i, "generating", NoUrl),
                            s, i, "error", NoUrl)
            /\ UNCHANGED requests
       ELSE /\ scenes' = UpdateImageStatus(scenes, s, i, "generating", NoUrl)
            /\ requests' = requests \cup {Request(s, i, FALSE)}
    /\ ResetEffect(scenes', videoConfig, Element, TRUE)
    /\ UNCHANGED <<mouseListener, referenceImages, isBatchGenerating, batchQueue, keyStatus,
                   isLoading, generatedImage, cfgVars, exportVars>>

\* handleToggleSelectImage (the checkbox is rendered for done images)
HandleToggleSelectImage(s, i) ==
    /\ s \in 1..Len(scenes)
    /\ i \in 1..Len(scenes[s].images)
    /\ scenes[s].images[i].status = "done"
    /\ LET img == scenes[s].images[i]
           flipped == [img EXCEPT !.isSelected = ~img.isSelected]
       IN  scenes' = MapScene(scenes, s, MapImage(scenes[s].images, i, flipped))
    /\ ResetEffect(scenes', videoConfig, Element, TRUE)
    /\ UNCHANGED <<genVars, cfgVars, exportVars>>

\* scene.images.filter(img => img.id !== imageId)
WithoutImage(images, i) ==
    [j \in 1..(Len(images) - 1) |-> IF j < i THEN images[j] ELSE images[j + 1]]

\* handleDeleteImage (the button is rendered for done images)
HandleDeleteImage(s, i) ==
    /\ s \in 1..Len(scenes)
    /\ i \in 1..Len(scenes[s].images)
    /\ scenes[s].images[i].status = "done"
    /\ scenes' = MapScene(scenes, s, WithoutImage(scenes[s].images, i))
    /\ ResetEffect(scenes', videoConfig, Element, TRUE)
    /\ UNCHANGED <<genVars, cfgVars, exportVars>>

(***************************************************************************)
(* Video step: editing                                                     *)
(***************************************************************************)
\* isNaN(newDuration) ? 0 : newDuration
StoredDuration(durationStr) ==
    LET newDuration == ParseFloat(durationStr)
    IN  IF newDuration.nan THEN 0 ELSE newDuration.val

\* scenes after handleImageDurationChange(sceneId, imageId, durationStr)
WithImageDuration(sc, s, i, durationStr) ==
    LET img == sc[s].images[i]
        stored == [img EXCEPT !.duration = StoredDuration(durationStr)]
    IN  MapScene(sc, s, MapImage(sc[s].images, i, stored))

\* handleImageDurationChange (the field is rendered for done, selected images)
HandleImageDurationChange(s, i, durationStr) ==
    /\ s \in 1..Len(scenes)
    /\ i \in 1..Len(scenes[s].images)
    /\ Eligible(scenes[s].images[i])
    /\ scenes' = WithImageDuration(scenes, s, i, durationStr)
    /\ ResetEffect(scenes', videoConfig, Element, TRUE)
    /\ UNCHANGED <<genVars, cfgVars, exportVars>>

SceneNext ==
    \/ \E n \in 1..MaxScenes : HandleSplitScenes(ArraySplits[n])
    \/ \E s \in 1..MaxScenes : HandleFileChange(s)
    \/ HandleBatchGenerate
    \/ \E s \in 0..MaxScenes, i \in 1..MaxImages, batch \in BOOLEAN,
          outcome \in {Success, ContentFilterFailure} :
            RunImageGeneration(Request(s, i, batch), outcome)
    \/ \E s \in 1..MaxScenes, i \in 1..MaxImages : HandleRetryGenerate(s, i)
    \/ \E s \in 1..MaxScenes, i \in 1..MaxImages : HandleToggleSelectImage(s, i)
    \/ \E s \in 1..MaxScenes, i \in 1..MaxImages, str \in DurationStrs :
            HandleImageDurationChange(s, i, str)

Next == SceneNext

Spec == Init /\ [][Next]_vars

(***************************************************************************)
(* Video step: export (handleCreateVideo)                                  *)
(***************************************************************************)
\* Bounds on the scene lists the export and the player start from: scenes
\* in a list, and images in the whole list.
PipelineMaxScenes == 2
PipelineMaxImages == 2

\* Advances of performance.now() between two frame callbacks, in ticks.
FrameSteps == {40, 160}

\* Lengths of the narration files that are uploaded, in ticks.
AudioLengths == {160, 280}

\* Ways in which the try block of handleCreateVideo can throw.
SetupFailures == {"context", "decode", "recorder"}

\* The blob url of the overlay file of scene s.
OverlayUrl(s) == 100 + s

\* The editor (settings, player and create button) is rendered only when the
\* finished-video view and the progress view are not.
EditorVisible == ~(videoReady /\ exportedVideoUrl # NoUrl) /\ ~isExporting

\* [...new Set([...imageTimeline.map(img => img.url), ...uniqueOverlayUrls])]
AllUrlsToLoad(sc, rate) ==
    {ExportTimeline(sc, rate).imageTimeline[i].url :
        i \in 1..Len(ExportTimeline(sc, rate).imageTimeline)}
    \cup {sc[k].overlay.url : k \in {j \in 1..Len(sc) : sc[j].overlay.url # NoUrl}}

\* handlePlaybackRateChange
HandlePlaybackRateChange(rate) ==
    /\ EditorVisible
    /\ rate # playbackRate
    /\ playbackRate' = rate
    /\ UNCHANGED <<genVars, scenes, videoConfig, audioDuration, playerVars, exportVars>>

\* handleAudioUpload; the narration element loads the new file from its
\* start, and the effects run for the trim values that were replaced
HandleAudioUpload(length) ==
    /\ EditorVisible
    /\ length # videoConfig.mediaLength
    /\ videoConfig' = [videoConfig EXCEPT !.audioFile = TRUE,
                                          !.mediaLength = length,
                                          !.trimStart = 0, !.trimEnd = Null]
    /\ LET loaded == [time |-> 0, paused |-> TRUE]
       IN  IF videoConfig.trimStart # 0
           THEN ResetEffect(scenes, videoConfig', loaded, FALSE)
           ELSE IF videoConfig.trimEnd # Null
           THEN SamplerEffectRerun(videoConfig', loaded)
           ELSE /\ audioTime' = loaded.time
                /\ audioPaused' = loaded.paused
                /\ UNCHANGED <<playbackState, intervalRef, imageBuffer,
                               activeBufferIndex, currentSceneIndex, trackVars>>
    /\ UNCHANGED <<genVars, scenes, playbackRate, audioDuration, exportVars>>

\* handleCreateVideo, from the click to the first await
HandleCreateVideo ==
    /\ EditorVisible
    /\ IF ~CanCreateVideo(scenes)
       THEN /\ createResult' = "rejected"
            /\ UNCHANGED <<isExporting, videoReady, exportedVideoUrl,
                           exportedVideoBlob, exportMessage, exportPc,
                           pendingPreloads, mediaElements, recorderState,
                           stoppedByDrawLoop, elapsedTime, framesDrawn,
                           audioGraph>>
       ELSE /\ createResult' = "started"
            /\ isExporting' = TRUE
            /\ videoReady' = FALSE
            /\ exportedVideoUrl' = NoUrl
            /\ exportMessage' = "init"
            /\ pendingPreloads' = AllUrlsToLoad(scenes, playbackRate)
            /\ mediaElements' = {}
            /\ exportPc' = "preload"
            /\ recorderState' = "inactive"
            /\ stoppedByDrawLoop' = FALSE
            /\ elapsedTime' = 0
            /\ framesDrawn' = 0
            /\ audioGraph' = NoAudioGraph
            /\ UNCHANGED exportedVideoBlob
    /\ IF CanCreateVideo(scenes) THEN Remount(scenes, videoConfig)
       ELSE UNCHANGED playerVars
    /\ UNCHANGED <<genVars, scenes, cfgVars>>

\* onMediaLoad of one preload
PreloadLoaded(url) ==
    /\ url \in pendingPreloads
    /\ pendingPreloads' = pendingPreloads \ {url}
    /\ mediaElements' = mediaElements \cup {url}
    /\ exportMessage' = "preload"
    /\ UNCHANGED <<genVars, scenes, cfgVars, playerVars, audioGraph, isExporting, videoReady,
                   exportedVideoUrl, exportedVideoBlob, exportPc, createResult,
                   recorderState, stoppedByDrawLoop, elapsedTime, framesDrawn>>

\* the error listener of one preload rejects: Promise.all rejects, and the
\* await before the try block throws out of handleCreateVideo
PreloadError(url) ==
    /\ url \in pendingPreloads
    /\ pendingPreloads' = pendingPreloads \ {url}
    /\ exportPc' = IF exportPc = "preload" THEN "failed" ELSE exportPc
    /\ UNCHANGED <<genVars, scenes, cfgVars, playerVars, audioGraph, isExporting, videoReady,
                   exportedVideoUrl, exportedVideoBlob, exportMessage,
                   createResult, mediaElements, recorderState,
                   stoppedByDrawLoop, elapsedTime, framesDrawn>>

\* Variant: the export goes on as soon as one preload has resolved.
AnyPreloadResolved(pending, loaded) == loaded # {}

\* await Promise.all(preloadPromises) returns
AllPreloadsResolved(pending, loaded) == pending = {}

\* after the barrier: setExportMessage, then the 200 ms pause
PreloadsComplete ==
    /\ exportPc = "preload"
    /\ AllPreloadsResolved(pendingPreloads, mediaElements)
    /\ exportPc' = "prepare"
    /\ exportMessage' = "prepare"
    /\ UNCHANGED <<genVars, scenes, cfgVars, playerVars, audioGraph, isExporting, videoReady,
                   exportedVideoUrl, exportedVideoBlob, createResult,
                   pendingPreloads, mediaElements, recorderState,
                   stoppedByDrawLoop, elapsedTime, framesDrawn>>

\* Variant: the narration is started for the whole of the timeline.
NarrationStartUntrimmed(cfg, duration, rate, totalDuration) ==
    [when |-> 0, offset |-> cfg.trimStart, duration |-> totalDuration]

\* narrationSource.start(0, trimStart,
\*                       Math.min(trimDuration / playbackRate, totalDuration))
NarrationStart(cfg, duration, rate, totalDuration) ==
    LET trimDuration == OrElse(cfg.trimEnd, duration) - cfg.trimStart
    IN  [when |-> 0, offset |-> cfg.trimStart,
         duration |-> Min(DurationOnPlayback(trimDuration, rate), totalDuration)]

\* The music source of one scene: its loop flag and its start call.  The
\* loop points are left at the 0 of a new source.
MusicSource(music, sceneTiming) ==
    LET bgTrimStart == OrElse(music.trimStart, 0)
        bgTrimEnd == OrElse(music.trimEnd, OrElse(music.duration, 0))
        bgTrimmedDuration == bgTrimEnd - bgTrimStart
    IN  [when |-> sceneTiming.startTime, offset |-> bgTrimStart,
         duration |-> sceneTiming.duration,
         loop |-> bgTrimmedDuration > 0 /\ sceneTiming.duration > bgTrimmedDuration,
         loopStart |-> 0, loopEnd |-> 0]

\* audioPromises: the sources of the scenes that have music and a duration
MusicSources(sc, sceneTimings) ==
    [k \in 1..Len(sc) |->
        IF sceneTimings[k].duration <= 0 \/ sc[k].music.url = NoUrl THEN <<>>
        ELSE <<MusicSource(sc[k].music, sceneTimings[k])>>]

\* AudioBufferSourceNode.start(when, offset, duration) throws a RangeError
\* when one of its arguments is negative.
StartThrows(call) == call.when < 0 \/ call.offset < 0 \/ call.duration < 0

\* One of the start calls of the try block throws: narrationSource.start,
\* musicSource.start or overlaySource.start(sceneTiming.startTime, 0,
\* sceneTiming.duration) of a scene with a duration.
SetupThrows(sc, cfg, duration, rate) ==
    LET tl == ExportTimeline(sc, rate)
    IN  \/ /\ cfg.audioFile
           /\ StartThrows(NarrationStart(cfg, duration, rate, tl.totalDuration))
        \/ \E k \in 1..Len(sc) :
              /\ tl.sceneTimings[k].duration > 0
              /\ \/ /\ sc[k].music.url # NoUrl
                    /\ StartThrows(MusicSource(sc[k].music, tl.sceneTimings[k]))
                 \/ /\ sc[k].overlay.url # NoUrl
                    /\ sc[k].overlay.type = "video"
                    /\ tl.sceneTimings[k].startTime < 0

\* the try block up to recorder.start() and the first requestAnimationFrame,
\* or up to the start call that throws into the catch clause
SetupRecording ==
    /\ exportPc = "prepare"
    /\ IF SetupThrows(scenes, videoConfig, audioDuration, playbackRate)
       THEN /\ exportPc' = "failed"
            /\ exportMessage' = "error"
            /\ isExporting' = FALSE
            /\ UNCHANGED <<recorderState, elapsedTime, audioGraph>>
       ELSE /\ exportPc' = "recording"
            /\ recorderState' = "recording"
            /\ elapsedTime' = 0
            /\ LET tl == ExportTimeline(scenes, playbackRate)
               IN  audioGraph' =
                      [narration |-> IF videoConfig.audioFile
                                     THEN <<NarrationStart(videoConfig, audioDuration,
                                                           playbackRate, tl.totalDuration)>>
                                     ELSE <<>>,
                       music |-> MusicSources(scenes, tl.sceneTimings)]
            /\ UNCHANGED <<isExporting, exportMessage>>
    /\ UNCHANGED <<genVars, scenes, cfgVars, playerVars, videoReady,
                   exportedVideoUrl, exportedVideoBlob,
                   createResult, pendingPreloads, mediaElements,
                   stoppedByDrawLoop, framesDrawn>>

\* the try block throws; the catch clause reports and clears isExporting
SetupFails(failure) ==
    /\ exportPc = "prepare"
    /\ failure = "decode" => videoConfig.audioFile
    /\ exportPc' = "failed"
    /\ exportMessage' = "error"
    /\ isExporting' = FALSE
    /\ UNCHANGED <<genVars, scenes, cfgVars, playerVars, audioGraph, videoReady, exportedVideoUrl,
                   exportedVideoBlob, createResult, pendingPreloads,
                   mediaElements, recorderState, stoppedByDrawLoop,
                   elapsedTime, framesDrawn>>

\* drawFrame: the images drawn over the black canvas at `elapsed`, each with
\* its opacity in percent: the image of the current segment, if there is one
\* and its element was loaded.
DrawnImages(timeline, elements, elapsed, total) ==
    LET currentSegmentIndex == DrawSegmentIndex(timeline, elapsed, total)
    IN  IF currentSegmentIndex = 0 \/ timeline[currentSegmentIndex].url \notin elements
        THEN <<>>
        ELSE <<[url |-> timeline[currentSegmentIndex].url, alpha |-> 100]>>

\* Variant: the draw loop finishes as soon as any time has elapsed.
FinishedOnFirstFrame(elapsed, total) == elapsed > 0

\* drawFrame: elapsedTime >= totalDuration
DrawLoopFinished(elapsed, total) == elapsed >= total

\* drawFrame, one frame callback
DrawFrame(step) ==
    /\ exportPc = "recording"
    /\ LET elapsed == elapsedTime + step
           total == ExportTimeline(scenes, playbackRate).totalDuration
       IN  /\ elapsedTime' = elapsed
           /\ IF DrawLoopFinished(elapsed, total)
              THEN /\ recorderState' = "inactive"
                   /\ stoppedByDrawLoop' = (recorderState = "recording")
                   /\ exportMessage' = "done"
                   /\ exportPc' = "stopping"
                   /\ UNCHANGED framesDrawn
              ELSE /\ framesDrawn' = framesDrawn + 1
                   /\ exportMessage' = "render"
                   /\ UNCHANGED <<recorderState, stoppedByDrawLoop, exportPc>>
    /\ UNCHANGED <<genVars, scenes, cfgVars, playerVars, audioGraph, isExporting, videoReady,
                   exportedVideoUrl, exportedVideoBlob, createResult,
                   pendingPreloads, mediaElements>>

\* Variant: the stop handler publishes the video and leaves isExporting set.
RecorderOnStopStillExporting ==
    /\ exportPc = "stopping"
    /\ recorderState = "inactive"
    /\ exportedVideoBlob' = 1
    /\ exportedVideoUrl' = 1
    /\ videoReady' = TRUE
    /\ exportPc' = "done"
    /\ UNCHANGED <<genVars, scenes, cfgVars, playerVars, audioGraph, exportMessage, createResult,
                   pendingPreloads, mediaElements, recorderState, isExporting,
                   stoppedByDrawLoop, elapsedTime, framesDrawn>>

\* recorder.onstop
RecorderOnStop ==
    /\ exportPc = "stopping"
    /\ recorderState = "inactive"
    /\ exportedVideoBlob' = 1
    /\ exportedVideoUrl' = 1
    /\ isExporting' = FALSE
    /\ videoReady' = TRUE
    /\ exportPc' = "done"
    /\ UNCHANGED <<genVars, scenes, cfgVars, playerVars, audioGraph, exportMessage, createResult,
                   pendingPreloads, mediaElements, recorderState,
                   stoppedByDrawLoop, elapsedTime, framesDrawn>>

\* resetVideoCreation (the button of the finished-video view)
ResetVideoCreation ==
    /\ videoReady /\ exportedVideoUrl # NoUrl
    /\ videoReady' = FALSE
    /\ isExporting' = FALSE
    /\ exportMessage' = ""
    /\ exportedVideoUrl' = NoUrl
    /\ exportedVideoBlob' = NoUrl
    /\ UNCHANGED <<genVars, scenes, cfgVars, playerVars, audioGraph, exportPc, createResult,
                   pendingPreloads, mediaElements, recorderState,
                   stoppedByDrawLoop, elapsedTime, framesDrawn>>

(***************************************************************************)
(* Scene lists as the scene step leaves them                               *)
(***************************************************************************)
ImageKinds == {"ready", "deselected", "generating"}

ImageOfKind(kind, s, i) ==
    CASE kind = "ready" ->
            [url |-> MediaUrl(s, i), isSelected |-> TRUE, status |-> "done",
             duration |-> DefaultDuration]
      [] kind = "deselected" ->
            [url |-> MediaUrl(s, i), isSelected |-> FALSE, status |-> "done",
             duration |-> DefaultDuration]
      [] kind = "generating" -> Placeholder

OverlayChoices(s, withOverlays) ==
    IF withOverlays
    THEN {NoOverlay,
          NewOverlay(OverlayUrl(s), "image"),
          NewOverlay(OverlayUrl(s), "video")}
    ELSE {NoOverlay}

SceneChoices(s, maxImages, withOverlays) ==
    {[images |-> [i \in 1..m |-> ImageOfKind(kinds[i], s, i)], overlay |-> ov,
      music |-> NoMusic] :
        <<m, kinds, ov>> \in
            {t \in (0..maxImages) \X [1..maxImages -> ImageKinds] \X OverlayChoices(s, withOverlays) :
                \A i \in 1..maxImages : i > t[1] => t[2][i] = "generating"}}

\* Scene lists of n scenes that hold at most maxImages images in all.
RECURSIVE SceneListsOfLength(_, _, _)
SceneListsOfLength(n, maxImages, withOverlays) ==
    IF n = 0 THEN {<<>>}
    ELSE UNION {{Append(sc, scene) :
                    scene \in SceneChoices(n, maxImages - TotalImages(sc), withOverlays)} :
                sc \in SceneListsOfLength(n - 1, maxImages, withOverlays)}

SceneLists(maxScenes, maxImages, withOverlays) ==
    UNION {SceneListsOfLength(n, maxImages, withOverlays) : n \in 1..maxScenes}

\* Every url a scene list of the pipeline specifications can hold.
PipelineUrls ==
    {MediaUrl(s, i) : s \in 1..PipelineMaxScenes, i \in 1..PipelineMaxImages}
    \cup {OverlayUrl(s) : s \in 1..PipelineMaxScenes}

ExportSpecInit ==
    /\ scenes \in SceneLists(PipelineMaxScenes, PipelineMaxImages, TRUE)
    /\ ConfigInit
    /\ PlayerMounted(scenes, videoConfig)
    /\ ExportInit
    /\ GenerationInit(scenes)

ExportNext ==
    \/ \E rate \in SpeedOptions : HandlePlaybackRateChange(rate)
    \/ \E length \in AudioLengths : HandleAudioUpload(length)
    \/ HandleCreateVideo
    \/ \E url \in PipelineUrls : PreloadLoaded(url)
    \/ \E url \in PipelineUrls : PreloadError(url)
    \/ PreloadsComplete
    \/ SetupRecording
    \/ \E failure \in SetupFailures : SetupFails(failure)
    \/ \E step \in FrameSteps : DrawFrame(step)
    \/ RecorderOnStop
    \/ ResetVideoCreation

SpecExport == ExportSpecInit /\ [][ExportNext]_vars

(***************************************************************************)
(* Video step: the preview transport (VideoPlayer)                         *)
(***************************************************************************)
\* How far the narration gets between two steps of the model, in ticks.
AudioSteps == {40, 100}

\* Strings typed into the trim fields.
TrimStartStrs == { <<>>, <<"1">>, <<"5">> }
TrimEndStrs == { <<>>, <<"3">>, <<"6">> }

\* trimEnd !== null ? Math.min(trimEnd, trimStart + totalDuration)
\*                  : trimStart + totalDuration
EffectiveEndTime(cfg, totalDuration) ==
    IF cfg.trimEnd # Null THEN Min(cfg.trimEnd, cfg.trimStart + totalDuration)
    ELSE cfg.trimStart + totalDuration

\* Transport handlers that run without a narration
AnyNarration == TRUE

\* !(!audioRef.current || !audioUrl): the transport handlers return at once
\* when no narration file is loaded
NarrationLoaded == videoConfig.audioFile

\* handlePlayPause
HandlePlayPause ==
    /\ EditorVisible
    /\ NarrationLoaded
    /\ playbackState' = IF playbackState = "playing" THEN "paused" ELSE "playing"
    /\ LET after == SamplerEffect(playbackState', Element, videoConfig)
       IN  /\ audioTime' = after.el.time
           /\ audioPaused' = after.el.paused
           /\ intervalRef' = after.interval
    /\ SetTracks(TracksRender(Tracks, scenes, videoConfig, playbackState',
                              currentSceneIndex, intervalRef, TRUE, TRUE))
    /\ UNCHANGED <<genVars, scenes, cfgVars, imageBuffer, activeBufferIndex,
                   currentSceneIndex, exportVars>>

\* handleRestart
HandleRestart ==
    /\ EditorVisible
    /\ NarrationLoaded
    /\ LET sought == Seek(Element, videoConfig.trimStart, videoConfig)
           after  == IF playbackState # "playing"
                     THEN SamplerEffect("playing", sought, videoConfig)
                     ELSE [el |-> sought, interval |-> intervalRef]
       IN  /\ playbackState' = "playing"
           /\ audioTime' = after.el.time
           /\ audioPaused' = after.el.paused
           /\ intervalRef' = after.interval
    /\ IF playbackState # "playing"
       THEN SetTracks(TracksRender(Tracks, scenes, videoConfig, "playing",
                                   currentSceneIndex, intervalRef, TRUE, TRUE))
       ELSE UNCHANGED trackVars
    /\ UNCHANGED <<genVars, scenes, cfgVars, imageBuffer, activeBufferIndex,
                   currentSceneIndex, exportVars>>

\* handleSeek, from the scene scrubber (rendered for more than one scene)
HandleSeek(sceneIdx) ==
    /\ EditorVisible
    /\ videoConfig.audioFile
    /\ Len(scenes) > 1
    /\ sceneIdx \in 0..(Len(scenes) - 1)
    /\ LET seekVideoTime == PreviewTimeline(scenes).sceneStartTimes[sceneIdx + 1]
           seekAudioTime == seekVideoTime + videoConfig.trimStart
           sought == Seek(Element, seekAudioTime, videoConfig)
           after  == IF playbackState = "playing" THEN Play(sought, videoConfig)
                     ELSE sought
       IN  /\ audioTime' = after.time
           /\ audioPaused' = after.paused
    /\ currentSceneIndex' = sceneIdx
    /\ SetTracks(TracksRender(Tracks, scenes, videoConfig, playbackState,
                              sceneIdx, intervalRef,
                              sceneIdx # currentSceneIndex, FALSE))
    /\ UNCHANGED <<genVars, scenes, cfgVars, playbackState, intervalRef, imageBuffer,
                   activeBufferIndex, exportVars>>

\* The narration plays on by `step` ticks, up to its end.
AudioAdvance(step) ==
    /\ videoConfig.audioFile
    /\ ~audioPaused
    /\ ~Ended(Element, videoConfig)
    /\ audioTime' = Min(audioTime + step, videoConfig.mediaLength)
    /\ audioPaused' = (audioTime' = videoConfig.mediaLength)
    /\ UNCHANGED <<genVars, scenes, cfgVars, playbackState, intervalRef, imageBuffer,
                   activeBufferIndex, currentSceneIndex, trackVars, exportVars>>

\* One run of the setInterval callback of the sampler effect, and the
\* effects of the render it causes.
SamplerTick ==
    /\ liveTimers > 0
    /\ LET tl == PreviewTimeline(scenes)
           videoTime == audioTime - videoConfig.trimStart
           effectiveEndTime == EffectiveEndTime(videoConfig, tl.totalDuration)
           current == SamplerSegmentIndex(tl.imageTimeline, videoTime)
           swap == current # 0
                   /\ tl.imageTimeline[current].url # imageBuffer[activeBufferIndex + 1]
           nextBufferIndex == 1 - activeBufferIndex
           sceneIdx == SamplerSceneIndex(tl.sceneStartTimes, tl.totalDuration, videoTime)
       IN  IF audioTime >= effectiveEndTime \/ Ended(Element, videoConfig)
           THEN LET sought == Seek(Element, videoConfig.trimStart, videoConfig)
                    after  == SamplerEffect("paused", sought, videoConfig)
                    halted == [Tracks EXCEPT !.bg.paused = TRUE,
                                             !.overlayPaused = TRUE,
                                             !.timers = TimersAfterCleanup(@, intervalRef)]
                IN  /\ playbackState' = "paused"
                    /\ audioTime' = after.el.time
                    /\ audioPaused' = after.el.paused
                    /\ imageBuffer' = <<FirstImageUrl(scenes), imageBuffer[2]>>
                    /\ activeBufferIndex' = 0
                    /\ intervalRef' = after.interval
                    /\ SetTracks(TracksRender(halted, scenes, videoConfig, "paused",
                                              currentSceneIndex, FALSE, TRUE, TRUE))
                    /\ UNCHANGED currentSceneIndex
           ELSE /\ IF swap
                   THEN LET after == SamplerEffect(playbackState, Element, videoConfig)
                        IN  /\ imageBuffer' = [imageBuffer EXCEPT ![nextBufferIndex + 1] =
                                                  tl.imageTimeline[current].url]
                            /\ activeBufferIndex' = nextBufferIndex
                            /\ audioTime' = after.el.time
                            /\ audioPaused' = after.el.paused
                            /\ intervalRef' = after.interval
                   ELSE UNCHANGED <<imageBuffer, activeBufferIndex, audioTime,
                                    audioPaused, intervalRef>>
                /\ currentSceneIndex' = IF sceneIdx # 0 THEN sceneIdx - 1
                                        ELSE currentSceneIndex
                /\ SetTracks(TracksRender(Tracks, scenes, videoConfig, playbackState,
                                          currentSceneIndex', intervalRef,
                                          currentSceneIndex' # currentSceneIndex, swap))
                /\ UNCHANGED playbackState
    /\ UNCHANGED <<genVars, scenes, cfgVars, exportVars>>

\* handleMetadataLoad, once the uploaded file reports its duration
HandleMetadataLoad ==
    /\ EditorVisible
    /\ videoConfig.audioFile
    /\ audioDuration # videoConfig.mediaLength
    /\ audioDuration' = videoConfig.mediaLength
    /\ IF videoConfig.trimEnd = Null \/ videoConfig.trimEnd > audioDuration'
       THEN /\ videoConfig' = [videoConfig EXCEPT !.trimEnd = audioDuration']
            /\ SamplerEffectRerun(videoConfig', Element)
       ELSE UNCHANGED <<videoConfig, playerVars>>
    /\ UNCHANGED <<genVars, scenes, playbackRate, exportVars>>

\* onChange of the trimStart field: parseFloat(e.target.value) || 0
HandleTrimStartChange(str) ==
    /\ EditorVisible
    /\ videoConfig.audioFile
    /\ LET parsed == ParseFloat(str)
           value  == IF parsed.nan THEN 0 ELSE parsed.val
       IN  videoConfig' = [videoConfig EXCEPT !.trimStart = value]
    /\ IF videoConfig'.trimStart # videoConfig.trimStart
       THEN ResetEffect(scenes, videoConfig', Element, FALSE)
       ELSE UNCHANGED playerVars
    /\ UNCHANGED <<genVars, scenes, playbackRate, audioDuration, exportVars>>

\* onChange of the trimEnd field: e.target.value ? parseFloat(...) : null
HandleTrimEndChange(str) ==
    /\ EditorVisible
    /\ videoConfig.audioFile
    /\ videoConfig' = [videoConfig EXCEPT !.trimEnd =
                          IF str = <<>> THEN Null ELSE ParseFloat(str).val]
    /\ IF videoConfig'.trimEnd # videoConfig.trimEnd
       THEN SamplerEffectRerun(videoConfig', Element)
       ELSE UNCHANGED playerVars
    /\ UNCHANGED <<genVars, scenes, playbackRate, audioDuration, exportVars>>

(***************************************************************************)
(* Video step: the durations from the narration                            *)
(***************************************************************************)
RECURSIVE IntOfLimbs(_)
IntOfLimbs(a) == IF a = <<>> THEN 0 ELSE Head(a) + Base * IntOfLimbs(Tail(a))

\* x.toFixed(1) for a double 0 <= x < 2^20, as its number of tenths: the
\* integer n with n / 10 nearest to x, the larger one of two
ToFixed1(x) ==
    IF x.m = <<>> THEN 0
    ELSE LET half == ShiftLeft(<<1>>, -x.e)
             twice == AddLimbs(TimesLimbs(x.m, 20, 0), half, 0)
         IN  IntOfLimbs(ShiftRight(Trim(twice), 1 - x.e).q)

\* description.split(/\s+/).filter(Boolean).length, of a text of letters
\* and blanks: the runs of letters
WordCount(description) ==
    Cardinality({i \in 1..Len(description) :
                    /\ description[i] # " "
                    /\ (i = 1 \/ description[i - 1] = " ")})

\* (videoConfig.trimEnd ?? audioDuration) - videoConfig.trimStart
TrimmedAudioDuration(cfg, duration) ==
    Minus(Seconds(OrElse(cfg.trimEnd, duration)), Seconds(cfg.trimStart))

\* scenes.flatMap(...).length: the done, selected images
TotalSelectedImages(sc) ==
    LET RECURSIVE SelectedUpTo(_)
        SelectedUpTo(k) ==
            IF k = 0 THEN 0 ELSE SelectedUpTo(k - 1) + Len(SelectedImages(sc[k]))
    IN  SelectedUpTo(Len(sc))

\* Math.max(MIN_DURATION_PER_IMAGE, parseFloat(...)) of a number of tenths,
\* in ticks
FinalDuration(tenths) == 4 * (IF tenths < 2 THEN 2 ELSE tenths)

\* totalWords: the words of the scenes with a done, selected image
TotalWords(sc) ==
    LET counted == {k \in 1..Len(sc) : SelectedImages(sc[k]) # <<>>}
        RECURSIVE WordsUpTo(_)
        WordsUpTo(k) ==
            IF k = 0 THEN 0
            ELSE WordsUpTo(k - 1)
                    + (IF k \in counted THEN WordCount(sc[k].description) ELSE 0)
    IN  WordsUpTo(Len(sc))

\* the duration the handler gives the done, selected images of a scene
AdjustedDuration(sc, scene, trimmedAudioDuration) ==
    LET totalSelectedImages == TotalSelectedImages(sc)
        totalBaseDuration == Number(totalSelectedImages)
        remainingDuration == Minus(trimmedAudioDuration, totalBaseDuration)
        totalWords == TotalWords(sc)
        additionalTimePerWord ==
            IF totalWords > 0 THEN Over(remainingDuration, totalWords) ELSE Zero
        sceneWordCount == WordCount(scene.description)
        additionalDurationForScene ==
            IF sceneWordCount = 0 THEN Zero
            ELSE Times(additionalTimePerWord, sceneWordCount)
        additionalDurationPerImage ==
            Over(additionalDurationForScene, Len(SelectedImages(scene)))
    IN  IF ~LessThan(totalBaseDuration, trimmedAudioDuration)
        THEN FinalDuration(ToFixed1(Over(trimmedAudioDuration, totalSelectedImages)))
        ELSE FinalDuration(ToFixed1(Plus(Number(1), additionalDurationPerImage)))

\* scenes after handleAutoAdjustDurations has run to its end
WithAdjustedDurations(sc, trimmedAudioDuration) ==
    [k \in 1..Len(sc) |->
        IF SelectedImages(sc[k]) = <<>> THEN sc[k]
        ELSE [sc[k] EXCEPT !.images =
                [i \in 1..Len(sc[k].images) |->
                    IF Eligible(sc[k].images[i])
                    THEN [sc[k].images[i] EXCEPT !.duration =
                             AdjustedDuration(sc, sc[k], trimmedAudioDuration)]
                    ELSE sc[k].images[i]]]]

\* the early returns of handleAutoAdjustDurations
AdjustReturnsEarly(sc, cfg, duration) ==
    \/ ~cfg.audioFile
    \/ duration = 0
    \/ ~LessThan(Zero, TrimmedAudioDuration(cfg, duration))
    \/ TotalSelectedImages(sc) = 0

\* handleAutoAdjustDurations
HandleAutoAdjustDurations ==
    /\ EditorVisible
    /\ IF AdjustReturnsEarly(scenes, videoConfig, audioDuration)
       THEN UNCHANGED <<scenes, playerVars>>
       ELSE /\ scenes' = WithAdjustedDurations(scenes,
                            TrimmedAudioDuration(videoConfig, audioDuration))
            /\ ResetEffect(scenes', videoConfig, Element, TRUE)
    /\ UNCHANGED <<genVars, cfgVars, exportVars>>

PlayerSpecInit ==
    /\ scenes \in SceneLists(PipelineMaxScenes, PipelineMaxImages, FALSE)
    /\ ConfigInit
    /\ PlayerMounted(scenes, videoConfig)
    /\ ExportInit
    /\ GenerationInit(scenes)

PlayerNext ==
    \/ \E length \in AudioLengths : HandleAudioUpload(length)
    \/ HandleMetadataLoad
    \/ \E str \in TrimStartStrs : HandleTrimStartChange(str)
    \/ \E str \in TrimEndStrs : HandleTrimEndChange(str)
    \/ HandlePlayPause
    \/ HandleRestart
    \/ \E sceneIdx \in 0..(PipelineMaxScenes - 1) : HandleSeek(sceneIdx)
    \/ \E step \in AudioSteps : AudioAdvance(step)
    \/ SamplerTick
    \/ \E s \in 1..PipelineMaxScenes, i \in 1..PipelineMaxImages :
          HandleToggleSelectImage(s, i)
    \/ \E s \in 1..PipelineMaxScenes, i \in 1..PipelineMaxImages :
          HandleDeleteImage(s, i)

SpecPlayer == PlayerSpecInit /\ [][PlayerNext]_vars

(***************************************************************************)
(* Video step: the background music of a scene (SceneAudioPreviewer)       *)
(***************************************************************************)
\* Lengths of the music files a user uploads, in ticks.
MusicLengths == {80}

\* Strings typed into the trim fields of a scene's music.
MusicTrimStartStrs == { <<"1">>, <<"-", "1">>, <<"3">> }
MusicTrimEndStrs == { <<>>, <<"1">> }

\* How far the music gets between two steps of the model, in ticks.
MusicSteps == {40}

\* handleSceneUpdate, for an update of the music fields:
\* scenes.map(s => s.id === sceneId ? { ...s, ...updates } : s)
WithMusic(sc, s, music) ==
    [k \in 1..Len(sc) |-> IF k = s THEN [sc[k] EXCEPT !.music = music] ELSE sc[k]]

\* handleFileChange of the previewer: a music file is chosen for scene s
HandleMusicFileChange(s, length) ==
    /\ EditorVisible
    /\ s \in 1..Len(scenes)
    /\ scenes[s].music.url = NoUrl
    /\ scenes' = WithMusic(scenes, s, [scenes[s].music EXCEPT
                     !.url = MusicUrl(s), !.length = length,
                     !.trimStart = 0, !.trimEnd = Null])
    /\ ResetEffect(scenes', videoConfig, Element, TRUE)
    /\ UNCHANGED <<genVars, cfgVars, exportVars>>

\* handleMetadata of the previewer, once the music file reports its duration
HandleMusicMetadata(s) ==
    /\ EditorVisible
    /\ s \in 1..Len(scenes)
    /\ scenes[s].music.url # NoUrl
    /\ scenes[s].music.duration # scenes[s].music.length
    /\ LET music == scenes[s].music
           duration == music.length
       IN  scenes' = WithMusic(scenes, s, [music EXCEPT
                         !.duration = duration,
                         !.trimEnd = IF music.trimEnd = Null \/ music.trimEnd > duration
                                     THEN duration ELSE music.trimEnd])
    /\ ResetEffect(scenes', videoConfig, Element, TRUE)
    /\ UNCHANGED <<genVars, cfgVars, exportVars>>

\* onChange of the music trimStart field: parseFloat(e.target.value) || 0
HandleMusicTrimStartChange(s, str) ==
    /\ EditorVisible
    /\ s \in 1..Len(scenes)
    /\ scenes[s].music.url # NoUrl
    /\ LET parsed == ParseFloat(str)
           value  == IF parsed.nan THEN 0 ELSE parsed.val
       IN  scenes' = WithMusic(scenes, s, [scenes[s].music EXCEPT !.trimStart = value])
    /\ ResetEffect(scenes', videoConfig, Element, TRUE)
    /\ UNCHANGED <<genVars, cfgVars, exportVars>>

\* onChange of the music trimEnd field: e.target.value ? parseFloat(...) : null
HandleMusicTrimEndChange(s, str) ==
    /\ EditorVisible
    /\ s \in 1..Len(scenes)
    /\ scenes[s].music.url # NoUrl
    /\ scenes' = WithMusic(scenes, s, [scenes[s].music EXCEPT !.trimEnd =
                     IF str = <<>> THEN Null ELSE ParseFloat(str).val])
    /\ ResetEffect(scenes', videoConfig, Element, TRUE)
    /\ UNCHANGED <<genVars, cfgVars, exportVars>>

\* The background music plays on by `step` ticks, up to its end.
BgAdvance(step) ==
    /\ ~bgAudio.paused
    /\ bgAudio.time < bgAudio.length
    /\ LET time == Min(bgAudio.time + step, bgAudio.length)
       IN  bgAudio' = [bgAudio EXCEPT !.time = time, !.paused = (time = bgAudio.length)]
    /\ UNCHANGED <<genVars, scenes, cfgVars, playbackState, audioTime, audioPaused,
                   intervalRef, imageBuffer, activeBufferIndex, currentSceneIndex,
                   liveTimers, lastPlayedMusicUrl, overlayPaused, exportVars>>

\* handleTimeUpdate: the listener of the element's timeupdate event
HandleTimeUpdate ==
    /\ bgAudio.src # NoUrl
    /\ HasCurrentScene(scenes, currentSceneIndex)
    /\ scenes[currentSceneIndex + 1].music.url # NoUrl
    /\ LET music == scenes[currentSceneIndex + 1].music
           trimStart == OrElse(music.trimStart, 0)
           trimEnd == OrElse(music.trimEnd, OrElse(music.duration, 0))
           sought == SeekMusic(bgAudio, trimStart)
       IN  IF trimEnd > trimStart /\ bgAudio.time >= trimEnd
           THEN bgAudio' = IF sought.paused /\ playbackState = "playing"
                           THEN PlayMusic(sought) ELSE sought
           ELSE UNCHANGED bgAudio
    /\ UNCHANGED <<genVars, scenes, cfgVars, playbackState, audioTime, audioPaused,
                   intervalRef, imageBuffer, activeBufferIndex, currentSceneIndex,
                   liveTimers, lastPlayedMusicUrl, overlayPaused, exportVars>>

\* The length of the narration file, in ticks.
NarrationLengths == {280}

\* Scenes of one image each, with or without music and overlay.
LoadedMusic(s, length) ==
    [url |-> MusicUrl(s), length |-> length, trimStart |-> 0, trimEnd |-> length,
     duration |-> length, volume |-> Null]

TrackScenes(s) ==
    {[images |-> <<ImageOfKind("ready", s, 1)>>, overlay |-> NoOverlay,
      music |-> NoMusic]}
    \cup {[images |-> <<ImageOfKind("ready", s, 1)>>,
           overlay |-> NewOverlay(OverlayUrl(s), "video"),
           music |-> LoadedMusic(s, length)] : length \in MusicLengths}

TracksSpecInit ==
    /\ scenes \in {<<first, second>> : first \in TrackScenes(1), second \in TrackScenes(2)}
    /\ playbackRate = RateOne
    /\ \E length \in NarrationLengths :
          /\ videoConfig = [audioFile |-> TRUE, mediaLength |-> length,
                            trimStart |-> 0, trimEnd |-> length]
          /\ audioDuration = length
    /\ PlayerMounted(scenes, videoConfig)
    /\ ExportInit
    /\ GenerationInit(scenes)

TracksNext ==
    \/ HandlePlayPause
    \/ HandleRestart
    \/ \E sceneIdx \in 0..(PipelineMaxScenes - 1) : HandleSeek(sceneIdx)
    \/ \E step \in MusicSteps : AudioAdvance(step)
    \/ SamplerTick
    \/ \E s \in 1..PipelineMaxScenes : HandleToggleSelectImage(s, 1)
    \/ HandleCreateVideo
    \/ \E s \in 1..PipelineMaxScenes, str \in MusicTrimStartStrs :
          HandleMusicTrimStartChange(s, str)
    \/ \E s \in 1..PipelineMaxScenes, str \in MusicTrimEndStrs :
          HandleMusicTrimEndChange(s, str)
    \/ \E step \in MusicSteps : BgAdvance(step)
    \/ HandleTimeUpdate

SpecTracks == TracksSpecInit /\ [][TracksNext]_vars

(***************************************************************************)
(* Video step: the audio graph of an export                                *)
(***************************************************************************)
\* Strings typed into the narration trim fields before an export.
GraphTrimStartStrs == { <<>>, <<"2">> }
GraphTrimEndStrs == { <<>>, <<"4">>, <<"1", "0">> }

\* Strings typed into the trim fields of a scene's music before an export.
GraphMusicTrimStartStrs == { <<"1">> }
GraphMusicTrimEndStrs == { <<>>, <<"1">> }

\* The length of the narration file of these exports, in ticks.
GraphNarrationLengths == {480}

GraphSpecInit ==
    /\ scenes \in {<<first, second>> : first \in TrackScenes(1), second \in TrackScenes(2)}
    /\ playbackRate = RateOne
    /\ \E length \in GraphNarrationLengths :
          /\ videoConfig = [audioFile |-> TRUE, mediaLength |-> length,
                            trimStart |-> 0, trimEnd |-> length]
          /\ audioDuration = length
    /\ PlayerMounted(scenes, videoConfig)
    /\ ExportInit
    /\ GenerationInit(scenes)

GraphNext ==
    \/ \E rate \in SpeedOptions : HandlePlaybackRateChange(rate)
    \/ \E str \in GraphTrimStartStrs : HandleTrimStartChange(str)
    \/ \E str \in GraphTrimEndStrs : HandleTrimEndChange(str)
    \/ \E s \in 1..PipelineMaxScenes, str \in GraphMusicTrimStartStrs :
          HandleMusicTrimStartChange(s, str)
    \/ \E s \in 1..PipelineMaxScenes, str \in GraphMusicTrimEndStrs :
          HandleMusicTrimEndChange(s, str)
    \/ HandleCreateVideo
    \/ \E url \in PipelineUrls : PreloadLoaded(url)
    \/ PreloadsComplete
    \/ SetupRecording

SpecGraph == GraphSpecInit /\ [][GraphNext]_vars

(***************************************************************************)
(* Video step: playing and exporting timelines of any length               *)
(***************************************************************************)
\* Strings typed into a duration field before playing or exporting.
TimelineDurationStrs == { <<>>, <<"2">> }

\* The length of the narration file, in ticks.
TimelineNarrationLengths == {160}

TimelineSpecInit ==
    /\ scenes \in SceneLists(PipelineMaxScenes, PipelineMaxImages, FALSE)
    /\ playbackRate = RateOne
    /\ \E length \in TimelineNarrationLengths :
          /\ videoConfig = [audioFile |-> TRUE, mediaLength |-> length,
                            trimStart |-> 0, trimEnd |-> length]
          /\ audioDuration = length
    /\ PlayerMounted(scenes, videoConfig)
    /\ ExportInit
    /\ GenerationInit(scenes)

TimelineNext ==
    \/ \E s \in 1..PipelineMaxScenes, i \in 1..PipelineMaxImages,
          str \in TimelineDurationStrs : HandleImageDurationChange(s, i, str)
    \/ HandlePlayPause
    \/ \E step \in MusicSteps : AudioAdvance(step)
    \/ SamplerTick
    \/ HandleCreateVideo
    \/ \E url \in PipelineUrls : PreloadLoaded(url)
    \/ PreloadsComplete
    \/ SetupRecording
    \/ \E step \in FrameSteps : DrawFrame(step)
    \/ RecorderOnStop
    \/ ResetVideoCreation

SpecTimeline == TimelineSpecInit /\ [][TimelineNext]_vars

(***************************************************************************)
(* Character step, and the generation of the scene images                  *)
(***************************************************************************)
MaxReferences == 2

\* CharacterStep.handleGenerateClick, up to its await
HandleGenerateClick(hasPrompt) ==
    /\ ~isLoading
    /\ IF ~hasPrompt
       THEN UNCHANGED <<isLoading, generatedImage>>
       ELSE /\ isLoading' = TRUE
            /\ generatedImage' = FALSE
    /\ UNCHANGED <<mouseListener, scenes, referenceImages, isBatchGenerating, batchQueue, requests,
                   keyStatus, cfgVars, playerVars, exportVars>>

\* CharacterStep.handleGenerateClick, from the settling of generateImageFromText
GenerateImageFromText(outcome) ==
    /\ isLoading
    /\ IF outcome.kind = "success"
       THEN /\ generatedImage' = TRUE
            /\ UNCHANGED keyStatus
       ELSE LET friendlyError == ParseGeminiError(outcome)
            IN  /\ keyStatus' = IF Includes(ToLowerCase(friendlyError.phrases), "api key")
                                 THEN MarkApiKeyAsInvalid(keyStatus) ELSE keyStatus
                /\ UNCHANGED generatedImage
    /\ isLoading' = FALSE
    /\ UNCHANGED <<mouseListener, scenes, referenceImages, isBatchGenerating, batchQueue, requests,
                   cfgVars, playerVars, exportVars>>

\* CharacterStep.addGeneratedToReferences
AddGeneratedToReferences ==
    /\ generatedImage
    /\ referenceImages < MaxReferences
    /\ referenceImages' = referenceImages + 1
    /\ generatedImage' = FALSE
    /\ UNCHANGED <<mouseListener, scenes, isBatchGenerating, batchQueue, requests, keyStatus,
                   isLoading, cfgVars, playerVars, exportVars>>

\* CharacterStep.removeReferenceImage
RemoveReferenceImage ==
    /\ referenceImages > 0
    /\ referenceImages' = referenceImages - 1
    /\ UNCHANGED <<mouseListener, scenes, isBatchGenerating, batchQueue, requests, keyStatus,
                   isLoading, generatedImage, cfgVars, playerVars, exportVars>>

GenerateSpecInit ==
    /\ scenes \in {[k \in 1..n |-> EmptyScene] : n \in 1..MaxScenes}
    /\ ConfigInit
    /\ PlayerMounted(scenes, videoConfig)
    /\ ExportInit
    /\ GenerationInit(scenes)

GenerateNext ==
    \/ \E n \in 1..MaxScenes : HandleSplitScenes(ArraySplits[n])
    \/ HandleBatchGenerate
    \/ \E s \in 0..MaxScenes, i \in 1..MaxImages, batch \in BOOLEAN,
          outcome \in Outcomes :
            RunImageGeneration(Request(s, i, batch), outcome)
    \/ \E s \in 1..MaxScenes, i \in 1..MaxImages : HandleRetryGenerate(s, i)
    \/ \E hasPrompt \in BOOLEAN : HandleGenerateClick(hasPrompt)
    \/ \E outcome \in Outcomes : GenerateImageFromText(outcome)
    \/ AddGeneratedToReferences
    \/ RemoveReferenceImage

SpecGenerate == GenerateSpecInit /\ [][GenerateNext]_vars

(***************************************************************************)
(* Dragging the overlay in the preview, among the other scene edits        *)
(***************************************************************************)
\* Horizontal mouse movements since the mousedown, in pixels: 15 and 30 percent
\* of the container below.
DragSteps == {48, 96}

\* getBoundingClientRect() of the preview container while scenes are edited
EditContainers == {[width |-> 320, height |-> 180]}

\* The overlay is moved no further right or down than this, in percent.
MaxOverlayX == 40

\* The overlay is made no wider or higher than this, in percent.
MaxOverlaySize == 40

\* The overlay is moved no further than this beyond the left or the upper
\* edge of the container, in percent.
MaxOverlayOutside == 5

\* Strings typed into a duration field while an overlay is dragged.
EditDurationStrs == { <<"2">> }

\* resizeHandles
ResizeHandles ==
    {"top-left", "top-right", "bottom-left", "bottom-right",
     "top", "bottom", "left", "right"}

\* handle.includes(side)
HandleIncludes(handle, side) ==
    side \in CASE handle = "top-left" -> {"top", "left"}
               [] handle = "top-right" -> {"top", "right"}
               [] handle = "bottom-left" -> {"bottom", "left"}
               [] handle = "bottom-right" -> {"bottom", "right"}
               [] OTHER -> {handle}

\* x, y, width and height of a SceneOverlay and of startRect
RectFields == {"x", "y", "width", "height"}

\* containerRect.width for x and width, containerRect.height for y and height
Extent(containerRect, f) ==
    IF f \in {"x", "width"} THEN containerRect.width ELSE containerRect.height

\* startRect: the percentages of the overlay in pixels of the container
StartRect(overlay, containerRect) ==
    [f \in RectFields |-> Times(Over(overlay[f], 100), Extent(containerRect, f))]

\* handleMouseMove: what is added to the fields of startRect.  No handle
\* includes both 'left' and 'right', or both 'top' and 'bottom', so a field
\* gets one addition at most, and subtracting dx is adding -dx.
Deltas(type, handle, dx, dy) ==
    IF type = "drag"
    THEN [x |-> dx, y |-> dy, width |-> 0, height |-> 0]
    ELSE [x |-> IF HandleIncludes(handle, "left") THEN dx ELSE 0,
          y |-> IF HandleIncludes(handle, "top") THEN dy ELSE 0,
          width |-> (IF HandleIncludes(handle, "right") THEN dx ELSE 0)
                        - (IF HandleIncludes(handle, "left") THEN dx ELSE 0),
          height |-> (IF HandleIncludes(handle, "bottom") THEN dy ELSE 0)
                        - (IF HandleIncludes(handle, "top") THEN dy ELSE 0)]

\* handleMouseMove: newRect before its dimensions are clamped
MovedRect(type, handle, startRect, dx, dy) ==
    [f \in RectFields |->
        Plus(startRect[f], Number(Deltas(type, handle, dx, dy)[f]))]

\* if (newRect.width < 20) newRect.width = 20, and the same for the height
MinSize == 20

MinSizeNumber == Number(MinSize)

UnclampedRect(rect) == rect

ClampedRect(rect) ==
    [f \in RectFields |->
        IF f \in {"width", "height"} /\ LessThan(rect[f], MinSizeNumber)
        THEN MinSizeNumber
        ELSE rect[f]]

\* handleMouseMove: newRect as it is committed
NewRect(type, handle, startRect, dx, dy) ==
    ClampedRect(MovedRect(type, handle, startRect, dx, dy))

\* the overlay that handleMouseMove passes to onOverlayChange: newRect in
\* percent of the container
OverlayAt(overlay, newRect, containerRect) ==
    [f \in DOMAIN overlay |->
        IF f \in RectFields
        THEN Times(Over(newRect[f], Extent(containerRect, f)), 100)
        ELSE overlay[f]]

\* The rectangle stays in the part of the container that is explored.
MaxOverlayXNumber == Number(MaxOverlayX)

MaxOverlaySizeNumber == Number(MaxOverlaySize)

MinOverlayXNumber == Number(-MaxOverlayOutside)

WithinBounds(overlay) ==
    \A f \in RectFields :
        IF f \in {"x", "y"}
        THEN /\ ~LessThan(overlay[f], MinOverlayXNumber)
             /\ ~LessThan(MaxOverlayXNumber, overlay[f])
        ELSE ~LessThan(MaxOverlaySizeNumber, overlay[f])

\* handleSceneUpdate(sceneId, { overlay }): scenes.map(s => s.id === sceneId ? ...)
WithOverlay(sc, s, overlay) ==
    [k \in 1..Len(sc) |-> IF k = s THEN [sc[k] EXCEPT !.overlay = overlay] ELSE sc[k]]

\* handleOverlayInteractionStart: interactionRef gets type, handle and
\* startRect; the listeners it adds to document close over currentScene and
\* over the onOverlayChange of this render
HandleOverlayInteractionStart(type, handle, containerRect) ==
    /\ EditorVisible
    /\ mouseListener = NoListener
    /\ HasCurrentScene(scenes, currentSceneIndex)
    /\ scenes[currentSceneIndex + 1].overlay.url # NoUrl
    /\ mouseListener' =
          [scenes |-> scenes, scene |-> currentSceneIndex + 1,
           type |-> type, handle |-> handle,
           startRect |-> StartRect(scenes[currentSceneIndex + 1].overlay,
                                   containerRect)]
    /\ UNCHANGED <<scenes, referenceImages, isBatchGenerating, batchQueue, requests,
                   keyStatus, isLoading, generatedImage, cfgVars, playerVars,
                   exportVars>>

\* handleMouseMove: onOverlayChange(currentScene.id, {...currentScene.overlay,
\* x, y, width, height}), where dx and dy are the distances of the pointer
\* from the mousedown
HandleMouseMove(dx, dy, containerRect) ==
    /\ mouseListener # NoListener
    /\ LET snapshot == mouseListener.scenes
           s == mouseListener.scene
           newRect == NewRect(mouseListener.type, mouseListener.handle,
                              mouseListener.startRect, dx, dy)
           overlay == OverlayAt(snapshot[s].overlay, newRect, containerRect)
       IN  /\ WithinBounds(overlay)
           /\ scenes' = WithOverlay(snapshot, s, overlay)
    /\ ResetEffect(scenes', videoConfig, Element, TRUE)
    /\ UNCHANGED <<genVars, cfgVars, exportVars>>

\* handleMouseUp: both listeners are removed
HandleMouseUp ==
    /\ mouseListener # NoListener
    /\ mouseListener' = NoListener
    /\ UNCHANGED <<scenes, referenceImages, isBatchGenerating, batchQueue, requests,
                   keyStatus, isLoading, generatedImage, cfgVars, playerVars,
                   exportVars>>

\* A scene whose generated image failed and that got an uploaded image and
\* an image overlay afterwards.
EditScene(s) ==
    [images |-> <<[Placeholder EXCEPT !.status = "error"], ImageOfKind("ready", s, 2)>>,
     overlay |-> NewOverlay(OverlayUrl(s), "image"),
     music |-> NoMusic]

EditSpecInit ==
    /\ scenes = <<EditScene(1)>>
    /\ ConfigInit
    /\ PlayerMounted(scenes, videoConfig)
    /\ ExportInit
    /\ GenerationInit(scenes)

EditNext ==
    \/ \E s \in 1..MaxScenes, i \in 1..MaxImages : HandleRetryGenerate(s, i)
    \/ \E s \in 0..MaxScenes, i \in 1..MaxImages, batch \in BOOLEAN,
          outcome \in {Success, ContentFilterFailure} :
            RunImageGeneration(Request(s, i, batch), outcome)
    \/ \E s \in 1..MaxScenes : HandleFileChange(s)
    \/ \E s \in 1..MaxScenes, i \in 1..MaxImages, str \in EditDurationStrs :
            HandleImageDurationChange(s, i, str)
    \/ \E s \in 1..MaxScenes, length \in MusicLengths : HandleMusicFileChange(s, length)
    \/ \E s \in 1..MaxScenes : HandleMusicMetadata(s)
    \/ \E c \in EditContainers : HandleOverlayInteractionStart("drag", "drag", c)
    \/ \E dx \in DragSteps, c \in EditContainers : HandleMouseMove(dx, 0, c)
    \/ HandleMouseUp

SpecEdit == EditSpecInit /\ [][EditNext]_vars

(***************************************************************************)
(* Moving and resizing the overlay in the preview                          *)
(***************************************************************************)
\* getBoundingClientRect() of the preview container
ContainerRects == {[width |-> 192, height |-> 108]}

\* Distances of the pointer from the mousedown, in pixels
PointerDx == {-40, 0, 40}
PointerDy == {-16, 0, 16}

OverlaySpecInit ==
    /\ scenes = <<[images |-> <<ImageOfKind("ready", 1, 1)>>,
                   overlay |-> NewOverlay(OverlayUrl(1), "image"),
                   music |-> NoMusic]>>
    /\ ConfigInit
    /\ PlayerMounted(scenes, videoConfig)
    /\ ExportInit
    /\ GenerationInit(scenes)

OverlayNext ==
    \/ \E c \in ContainerRects : HandleOverlayInteractionStart("drag", "drag", c)
    \/ \E handle \in ResizeHandles, c \in ContainerRects :
            HandleOverlayInteractionStart("resize", handle, c)
    \/ \E dx \in PointerDx, dy \in PointerDy, c \in ContainerRects :
            HandleMouseMove(dx, dy, c)
    \/ HandleMouseUp

SpecOverlay == OverlaySpecInit /\ [][OverlayNext]_vars

(***************************************************************************)
(* Video step: the transport before and after the narration is loaded,     *)
(* with subordinate files that do not decode                               *)
(***************************************************************************)
\* The music of scene s as an upload of a file that does not decode leaves
\* it: its metadata never loads.
UndecodableMusic(s) ==
    [url |-> UndecodableUrl(s), length |-> 0, trimStart |-> 0, trimEnd |-> Null,
     duration |-> Null, volume |-> Null]

\* Scenes of one image each with music and a video overlay, which decode
\* or do not.
TransportScenes(s) ==
    {[images |-> <<ImageOfKind("ready", s, 1)>>,
      overlay |-> NewOverlay(OverlayUrl(s), "video"),
      music |-> LoadedMusic(s, length)] : length \in MusicLengths}
    \cup {[images |-> <<ImageOfKind("ready", s, 1)>>,
           overlay |-> NewOverlay(UndecodableUrl(s), "video"),
           music |-> UndecodableMusic(s)]}

TransportSpecInit ==
    /\ scenes \in {<<first, second>> : first \in TransportScenes(1),
                                        second \in TransportScenes(2)}
    /\ ConfigInit
    /\ PlayerMounted(scenes, videoConfig)
    /\ ExportInit
    /\ GenerationInit(scenes)

TransportNext ==
    \/ \E length \in NarrationLengths : HandleAudioUpload(length)
    \/ HandleMetadataLoad
    \/ HandlePlayPause
    \/ HandleRestart
    \/ \E step \in MusicSteps : AudioAdvance(step)
    \/ SamplerTick
    \/ \E step \in MusicSteps : BgAdvance(step)
    \/ HandleTimeUpdate
    \/ \E s \in 1..PipelineMaxScenes, str \in MusicTrimEndStrs :
          HandleMusicTrimEndChange(s, str)

SpecTransport == TransportSpecInit /\ [][TransportNext]_vars

(***************************************************************************)
(* Scene step: splitting the story, for any reply of the service           *)
(***************************************************************************)
\* Texts the service replies with: arrays of descriptions, arrays with
\* other elements, other values, and texts that are not JSON.
ReplyTexts ==
    { <<>>,
      <<Punct("["), Punct("]")>>,
      <<Punct("["), Str(1), Punct("]")>>,
      <<Punct("["), Str(1), Punct(","), Str(2), Punct("]")>>,
      <<Punct("["), Str(2), Punct(","), Str(1), Punct("]")>>,
      <<Punct("["), Str(1), Punct(","), Num(7), Punct("]")>>,
      <<Punct("["), Num(7), Punct("]")>>,
      <<Punct("["), Punct("["), Str(1), Punct("]"), Punct("]")>>,
      <<Punct("["), Str(1), Punct(","), Punct("{"), Punct("}"), Punct("]")>>,
      <<Punct("["), Str(1), Punct(",")>>,
      <<Punct("["), Str(1), Punct(","), Punct("]")>>,
      <<Punct("["), Str(1), Str(2), Punct("]")>>,
      <<Punct("["), Str(1), Punct("]"), Punct("]")>>,
      <<Str(1)>>,
      <<Punct("{"), Punct("}")>>,
      <<Punct("]")>> }

SplitReplies ==
    {TextReply(text) : text \in ReplyTexts}
    \cup {FailedReply(InvalidKeyFailure), FailedReply(QuotaFailure)}

SplitNext ==
    \/ \E reply \in SplitReplies : HandleSplitScenes(SplitStoryIntoScenes(reply))
    \/ \E s \in 1..MaxScenes : HandleFileChange(s)
    \/ \E s \in 1..MaxScenes, i \in 1..MaxImages : HandleToggleSelectImage(s, i)

SpecSplit == Init /\ [][SplitNext]_vars

(***************************************************************************)
(* Video step: the frames of an export near the end of a segment           *)
(***************************************************************************)
\* Advances of performance.now() between two frame callbacks, in ticks.
TransitionFrameSteps == {30, 80}

DrawNext ==
    \/ HandleCreateVideo
    \/ \E url \in PipelineUrls : PreloadLoaded(url)
    \/ PreloadsComplete
    \/ SetupRecording
    \/ \E step \in TransitionFrameSteps : DrawFrame(step)
    \/ RecorderOnStop
    \/ ResetVideoCreation

SpecDraw == TimelineSpecInit /\ [][DrawNext]_vars

(***************************************************************************)
(* The export timeline against the preview timeline, in doubles            *)
(***************************************************************************)
\* Durations typed into the duration field of an image.
RateDurationStrs == { <<"0", ".", "1">>, <<"0", ".", "2">>, <<"2">> }

RateSpecInit ==
    /\ scenes \in SceneLists(PipelineMaxScenes, PipelineMaxImages, FALSE)
    /\ ConfigInit
    /\ PlayerMounted(scenes, videoConfig)
    /\ ExportInit
    /\ GenerationInit(scenes)

RateNext ==
    \/ \E s \in 1..PipelineMaxScenes, i \in 1..PipelineMaxImages,
          str \in RateDurationStrs : HandleImageDurationChange(s, i, str)
    \/ \E rate \in BinaryRates : HandlePlaybackRateChange(rate)

SpecRate == RateSpecInit /\ [][RateNext]_vars

(***************************************************************************)
(* An export from its start to its end, under fair scheduling              *)
(*                                                                         *)
(* Every preload loads and the try block meets no failure of the browser   *)
(* (PreloadError and SetupFails are left out).  The frame callbacks, the   *)
(* timers and the events of the recorder are scheduled fairly and the      *)
(* clock advances between two frames; what the user does is not.           *)
(***************************************************************************)
\* Strings typed into the trimStart field before an export; the narration
\* is 4 s long.
LiveTrimStartStrs == { <<>>, <<"1">>, <<"5">> }

LiveNext ==
    \/ \E str \in LiveTrimStartStrs : HandleTrimStartChange(str)
    \/ HandleCreateVideo
    \/ \E url \in PipelineUrls : PreloadLoaded(url)
    \/ PreloadsComplete
    \/ SetupRecording
    \/ \E step \in FrameSteps : DrawFrame(step)
    \/ RecorderOnStop
    \/ ResetVideoCreation

LiveFairness ==
    /\ WF_vars(\E url \in PipelineUrls : PreloadLoaded(url))
    /\ WF_vars(PreloadsComplete)
    /\ WF_vars(SetupRecording)
    /\ WF_vars(\E step \in FrameSteps : DrawFrame(step))
    /\ WF_vars(RecorderOnStop)

SpecLive == TimelineSpecInit /\ [][LiveNext]_vars /\ LiveFairness

(***************************************************************************)
(* The durations from the narration, over scenes with descriptions         *)
(***************************************************************************)
\* Descriptions of the scenes, as letters and blanks: no word, one word, two
\* words between blanks
AdjustDescriptions == { <<" ">>, <<"a">>, <<" ", "a", "b", " ", " ", "c">> }

\* Strings typed into the trimStart field
AdjustTrimStartStrs == { <<>>, <<"3">>, <<"3", ".", "9">>, <<"5">> }

WithDescriptions(sc, descriptions) ==
    [k \in 1..Len(sc) |->
        [description |-> descriptions[k], images |-> sc[k].images,
         overlay |-> sc[k].overlay, music |-> sc[k].music]]

AdjustSpecInit ==
    /\ scenes \in {WithDescriptions(sc, descriptions) :
                      sc \in SceneLists(PipelineMaxScenes, PipelineMaxImages, FALSE),
                      descriptions \in [1..PipelineMaxScenes -> AdjustDescriptions]}
    /\ ConfigInit
    /\ PlayerMounted(scenes, videoConfig)
    /\ ExportInit
    /\ GenerationInit(scenes)

AdjustNext ==
    \/ \E length \in AudioLengths : HandleAudioUpload(length)
    \/ HandleMetadataLoad
    \/ \E str \in AdjustTrimStartStrs : HandleTrimStartChange(str)
    \/ HandleAutoAdjustDurations

SpecAdjust == AdjustSpecInit /\ [][AdjustNext]_vars

(***************************************************************************)
(* Properties of the Timeline Builder                                      *)
(***************************************************************************)
\* Positions <<scene, image>> of the images that are done and selected.
DoneSelectedPositions(sc) ==
    {p \in UNION {{k} \X (1..Len(sc[k].images)) : k \in 1..Len(sc)} :
        /\ sc[p[1]].images[p[2]].status = "done"
        /\ sc[p[1]].images[p[2]].isSelected = TRUE}

RECURSIVE SumOfDurations(_, _)
SumOfDurations(sc, positions) ==
    IF positions = {} THEN 0
    ELSE LET p == CHOOSE q \in positions : TRUE
         IN  sc[p[1]].images[p[2]].duration + SumOfDurations(sc, positions \ {p})

ScenesWithoutEligible(sc) ==
    {k \in 1..Len(sc) : \A p \in DoneSelectedPositions(sc) : p[1] # k}

\* C1: totalDuration of the Timeline Builder is the sum of the durations of
\* all done and selected images of all scenes, however many scenes have no
\* such image.
C1_TotalDurationIsSum ==
    PreviewTimeline(scenes).totalDuration
        = SumOfDurations(scenes, DoneSelectedPositions(scenes))

C1_Witness ==
    /\ Len(scenes) = 3
    /\ Cardinality(ScenesWithoutEligible(scenes)) = 2
    /\ Cardinality(DoneSelectedPositions(scenes)) = 2
    /\ \E k \in 1..Len(scenes) : \E j \in 1..Len(scenes[k].images) :
            scenes[k].images[j].status = "done" /\ ~scenes[k].images[j].isSelected
    /\ PreviewTimeline(scenes).totalDuration = 140

\* C2: the segments in order are contiguous and non-overlapping: the first
\* starts at 0, every segment has start <= end, every segment starts where
\* the previous one ends, and the last one ends at totalDuration.
C2_SegmentsContiguous ==
    LET built == PreviewTimeline(scenes)
        tl == built.imageTimeline
    IN  /\ Len(tl) > 0 => tl[1].startTime = 0
        /\ \A i \in 1..Len(tl) : tl[i].startTime <= tl[i].endTime
        /\ \A i \in 2..Len(tl) : tl[i].startTime = tl[i - 1].endTime
        /\ Len(tl) > 0 => tl[Len(tl)].endTime = built.totalDuration

\* Segments of a timeline whose [start, end) range contains t.
Containing(timeline, t) ==
    {i \in 1..Len(timeline) : timeline[i].startTime <= t /\ t < timeline[i].endTime}

\* C3: for every master-clock time t with trimStart <= t < trimStart +
\* totalDuration the active-segment lookup of the sampler and of the draw
\* loop returns the one segment whose range contains t - trimStart.
C3_LookupIsUnique ==
    LET preview == PreviewTimeline(scenes)
        trimStart == videoConfig.trimStart
    IN  /\ \A t \in trimStart..(trimStart + preview.totalDuration - 1) :
              Containing(preview.imageTimeline, t - trimStart)
                = {SamplerSegmentIndex(preview.imageTimeline, t - trimStart)}
        /\ \A rate \in SpeedOptions :
              LET export == ExportTimeline(scenes, rate)
              IN  \A e \in 0..(export.totalDuration - 1) :
                    Containing(export.imageTimeline, e)
                      = {DrawSegmentIndex(export.imageTimeline, e, export.totalDuration)}

\* Durations of the done and selected images of scene k, in image order.
RECURSIVE DoneSelectedDurations(_, _)
DoneSelectedDurations(images, j) ==
    IF j > Len(images) THEN <<>>
    ELSE IF images[j].status = "done" /\ images[j].isSelected = TRUE
         THEN <<images[j].duration>> \o DoneSelectedDurations(images, j + 1)
         ELSE DoneSelectedDurations(images, j + 1)

PositionsBefore(sc, k) == {p \in DoneSelectedPositions(sc) : p[1] < k}
PositionsOf(sc, k) == {p \in DoneSelectedPositions(sc) : p[1] = k}

\* C4: every scene gets a timing whose start is the cumulative time before
\* it and whose duration is that of its own done and selected images, so a
\* scene without such an image has duration 0 at the cumulative time and adds
\* no segment; scenes of durations [2, 1.5], [], [4] give a total of 7.5 s
\* and the timings (0, 3.5), (3.5, 0), (3.5, 4).
C4_EmptySceneTiming ==
    LET preview == PreviewTimeline(scenes)
        export == ExportTimeline(scenes, RateOne)
    IN  /\ Len(preview.sceneStartTimes) = Len(scenes)
        /\ Len(export.sceneTimings) = Len(scenes)
        /\ Len(preview.imageTimeline) = Cardinality(DoneSelectedPositions(scenes))
        /\ Len(export.imageTimeline) = Cardinality(DoneSelectedPositions(scenes))
        /\ \A k \in 1..Len(scenes) :
              /\ preview.sceneStartTimes[k]
                    = SumOfDurations(scenes, PositionsBefore(scenes, k))
              /\ export.sceneTimings[k].startTime
                    = SumOfDurations(scenes, PositionsBefore(scenes, k))
              /\ export.sceneTimings[k].duration
                    = SumOfDurations(scenes, PositionsOf(scenes, k))
        /\ \A rate \in SpeedOptions : \A k \in ScenesWithoutEligible(scenes) :
              LET timings == ExportTimeline(scenes, rate).sceneTimings
              IN  /\ timings[k].duration = 0
                  /\ timings[k].startTime
                       = IF k = 1 THEN 0
                         ELSE timings[k - 1].startTime + timings[k - 1].duration
        /\ ( /\ Len(scenes) = 3
             /\ DoneSelectedDurations(scenes[1].images, 1) = <<80, 60>>
             /\ DoneSelectedDurations(scenes[2].images, 1) = <<>>
             /\ DoneSelectedDurations(scenes[3].images, 1) = <<160>> )
           => /\ preview.totalDuration = 300
              /\ export.totalDuration = 300
              /\ preview.sceneStartTimes = <<0, 140, 140>>
              /\ [k \in 1..3 |-> <<export.sceneTimings[k].startTime,
                                    export.sceneTimings[k].duration>>]
                    = << <<0, 140>>, <<140, 0>>, <<140, 160>> >>

C4_Witness ==
    /\ Len(scenes) = 3
    /\ DoneSelectedDurations(scenes[1].images, 1) = <<80, 60>>
    /\ DoneSelectedDurations(scenes[2].images, 1) = <<>>
    /\ DoneSelectedDurations(scenes[3].images, 1) = <<160>>

\* Urls of the done and selected images, scene by scene in image order.
RECURSIVE DoneSelectedUrls(_, _, _)
DoneSelectedUrls(sc, k, j) ==
    IF k > Len(sc) THEN <<>>
    ELSE IF j > Len(sc[k].images) THEN DoneSelectedUrls(sc, k + 1, 1)
    ELSE IF sc[k].images[j].status = "done" /\ sc[k].images[j].isSelected = TRUE
         THEN <<sc[k].images[j].url>> \o DoneSelectedUrls(sc, k, j + 1)
         ELSE DoneSelectedUrls(sc, k, j + 1)

UrlsOf(timeline) == [i \in 1..Len(timeline) |-> timeline[i].url]

\* C5: an image has a segment exactly if it is done and selected, and the
\* segments come in scene order and, within a scene, in image order.
C5_SegmentsAreEligibleInOrder ==
    /\ UrlsOf(PreviewTimeline(scenes).imageTimeline) = DoneSelectedUrls(scenes, 1, 1)
    /\ \A rate \in SpeedOptions :
          UrlsOf(ExportTimeline(scenes, rate).imageTimeline)
            = DoneSelectedUrls(scenes, 1, 1)

C5_Witness ==
    /\ Len(PreviewTimeline(scenes).imageTimeline) = 2
    /\ \E k \in 1..Len(scenes) : Len(SelectedImages(scenes[k])) = 2
    /\ \E k \in 1..Len(scenes) : \E j \in 1..Len(scenes[k].images) :
            scenes[k].images[j].status \in {"generating", "error"}

(***************************************************************************)
(* Properties of the export                                                *)
(***************************************************************************)
\* C6: a call of handleCreateVideo while no image is done and selected is
\* rejected before any side effect: no preload and no recorder is started
\* and the export state is left as it was.
C6_NoEligibleRejected ==
    [][ (DoneSelectedPositions(scenes) = {} /\ createResult' # createResult)
          => /\ createResult' = "rejected"
             /\ UNCHANGED <<isExporting, videoReady, exportedVideoUrl,
                            exportedVideoBlob, exportMessage, exportPc,
                            pendingPreloads, mediaElements, recorderState,
                            elapsedTime, framesDrawn>> ]_vars

C6_Witness ==
    /\ createResult = "rejected"
    /\ DoneSelectedPositions(scenes) = {}
    /\ \E k \in 1..Len(scenes) : \E j \in 1..Len(scenes[k].images) :
            scenes[k].images[j].status = "done"
    /\ exportPc = "idle" /\ ~isExporting /\ recorderState = "inactive"

\* C7: an export that failed (a preload rejected, or the audio or recorder
\* setup threw) has surfaced the error and left isExporting = false and
\* videoReady = false, so that the export can be started again.
C7_FailedExportIsReadyToRetry ==
    exportPc = "failed"
        => ~isExporting /\ ~videoReady /\ exportMessage = "error"

\* C8: a finished video (videoReady, blob, url) is shown only after the draw
\* loop stopped the recorder on seeing elapsed >= totalDuration; while an
\* export is under way or after it failed nothing is shown as finished.
C8_NoPartialOutput ==
    /\ (videoReady \/ exportedVideoUrl # NoUrl \/ exportedVideoBlob # NoUrl)
          => /\ stoppedByDrawLoop
             /\ recorderState = "inactive"
             /\ elapsedTime >= ExportTimeline(scenes, playbackRate).totalDuration
    /\ exportPc \in {"preload", "prepare", "recording", "stopping", "failed"}
          => /\ ~videoReady
             /\ exportedVideoUrl = NoUrl
             /\ exportedVideoBlob = NoUrl

C8_Witness ==
    /\ videoReady
    /\ exportedVideoBlob # NoUrl
    /\ framesDrawn >= 2
    /\ Len(ExportTimeline(scenes, playbackRate).imageTimeline) = 2

\* The media references of an export: the urls of the done and selected
\* images and the urls of the overlays.
MediaReferences(sc) ==
    {sc[p[1]].images[p[2]].url : p \in DoneSelectedPositions(sc)}
    \cup {sc[k].overlay.url : k \in {j \in 1..Len(sc) : sc[j].overlay.url # NoUrl}}

\* C9: the recorder runs and frames are drawn only after every media
\* reference of the timeline and of the overlays has been loaded; no frame
\* is drawn while a preload is outstanding.
C9_PreloadBarrier ==
    (recorderState = "recording" \/ framesDrawn > 0 \/ exportPc = "recording")
        => /\ pendingPreloads = {}
           /\ mediaElements = MediaReferences(scenes)

C9_Witness ==
    /\ recorderState = "recording"
    /\ framesDrawn >= 1
    /\ Cardinality(mediaElements) >= 3
    /\ \E k \in 1..Len(scenes) : scenes[k].overlay.url \in mediaElements

\* The effective end the sampler compares the master time against.
EffectiveEnd ==
    LET total == SumOfDurations(scenes, DoneSelectedPositions(scenes))
    IN  IF videoConfig.trimEnd # Null
        THEN Min(videoConfig.trimEnd, videoConfig.trimStart + total)
        ELSE videoConfig.trimStart + total

FirstSegmentUrl ==
    IF DoneSelectedUrls(scenes, 1, 1) = <<>> THEN NoUrl
    ELSE DoneSelectedUrls(scenes, 1, 1)[1]

\* C10: while playing, a sampler tick that reads a master time at or past
\* the effective end, or finds the master track ended, leaves the transport
\* paused, the master position at trimStart and the first segment of the
\* timeline displayed.
C10_EndOfPlaybackResets ==
    [][(/\ SamplerTick
        /\ playbackState = "playing"
        /\ (audioTime >= EffectiveEnd \/ audioTime >= videoConfig.mediaLength))
       => (/\ playbackState' = "paused"
           /\ audioTime' = videoConfig.trimStart
           /\ imageBuffer'[activeBufferIndex' + 1] = FirstSegmentUrl)]_vars

(***************************************************************************)
(* Properties of the preview transport's tracks                            *)
(***************************************************************************)
\* C11: every scheduled sampler timer is the one intervalRef holds, and
\* while the transport is paused (after pause, after the end of playback,
\* after unmounting) no sampler timer is scheduled and the background music
\* and the overlay video are paused.
C11_PausedTransportIsQuiet ==
    /\ liveTimers = (IF intervalRef THEN 1 ELSE 0)
    /\ playbackState = "paused" =>
          /\ liveTimers = 0
          /\ bgAudio.paused
          /\ overlayPaused

\* Paused after the music of a scene with a video overlay has played on.
C11_Witness ==
    /\ playbackState = "paused"
    /\ lastPlayedMusicUrl # NoUrl
    /\ bgAudio.time > 0
    /\ HasOverlayVideo(scenes, currentSceneIndex)

\* The music fields of the scene the player shows (NoMusic without one).
CurrentMusic(sc, idx) == IF HasCurrentScene(sc, idx) THEN sc[idx + 1].music ELSE NoMusic

\* C12: when the active scene changes while the transport is playing, the
\* music of the previous scene is no longer playing; the music of a new
\* scene that has music is the source of the element, playing from the new
\* scene's trimStart at the new scene's volume, and for a new scene without
\* music the element is paused.
C12_MusicFollowsScene ==
    [][(/\ playbackState = "playing"
        /\ playbackState' = "playing"
        /\ currentSceneIndex' # currentSceneIndex)
       => LET old == CurrentMusic(scenes, currentSceneIndex)
              new == CurrentMusic(scenes', currentSceneIndex')
          IN  /\ old.url # NoUrl => (bgAudio'.paused \/ bgAudio'.src # old.url)
              /\ new.url # NoUrl =>
                    /\ bgAudio'.src = new.url
                    /\ ~bgAudio'.paused
                    /\ bgAudio'.time = OrElse(new.trimStart, 0)
                    /\ bgAudio'.volume = OrElse(new.volume, DefaultMusicVolume)
              /\ new.url = NoUrl => bgAudio'.paused]_vars

\* The trim window of a scene's music, with the end of the file for a
\* trimEnd that is not set.
MusicTrimStart(music) == OrElse(music.trimStart, 0)
MusicTrimEnd(music) == OrElse(music.trimEnd, OrElse(music.duration, 0))

\* The scene the player shows has music whose trim window is not empty and
\* shorter than the scene, and the transport is playing.
LoopingSceneActive ==
    /\ playbackState = "playing"
    /\ HasCurrentScene(scenes, currentSceneIndex)
    /\ LET music == scenes[currentSceneIndex + 1].music
       IN  /\ music.url # NoUrl
           /\ MusicTrimEnd(music) - MusicTrimStart(music) > 0
           /\ MusicTrimEnd(music) - MusicTrimStart(music)
                 < SumOfDurations(scenes, PositionsOf(scenes, currentSceneIndex + 1))

\* C13: while a scene whose trimmed music is shorter than the scene is
\* active and the transport is playing, a time update that finds the music
\* position at or past trimEnd sets it back to trimStart and leaves the
\* music playing.
C13_MusicLoopsInTrimWindow ==
    [][(/\ HandleTimeUpdate
        /\ LoopingSceneActive
        /\ bgAudio.time >= MusicTrimEnd(scenes[currentSceneIndex + 1].music))
       => (/\ bgAudio'.time = MusicTrimStart(scenes[currentSceneIndex + 1].music)
           /\ ~bgAudio'.paused)]_vars

(***************************************************************************)
(* Properties of the audio graph of an export                              *)
(***************************************************************************)
\* The sum of the done and selected images' durations, each divided by the
\* playback rate.
RECURSIVE SumOnPlayback(_, _, _)
SumOnPlayback(sc, positions, rate) ==
    IF positions = {} THEN 0
    ELSE LET p == CHOOSE q \in positions : TRUE
         IN  (sc[p[1]].images[p[2]].duration * rate.den) \div rate.num
             + SumOnPlayback(sc, positions \ {p}, rate)

\* The narration's trim window divided by the playback rate.
TrimWindowOnPlayback ==
    ((OrElse(videoConfig.trimEnd, audioDuration) - videoConfig.trimStart)
        * playbackRate.den) \div playbackRate.num

\* trimStart = 2, trimEnd = 10, playbackRate = 2, images of 6 s in all
NarrationScenario ==
    /\ videoConfig.trimStart = 80
    /\ videoConfig.trimEnd = 400
    /\ playbackRate = [num |-> 2, den |-> 1]
    /\ SumOfDurations(scenes, DoneSelectedPositions(scenes)) = 240

\* C14 as stated: the duration passed to the narration source's start call
\* is the smaller of the trim window divided by the playback rate and the
\* nominal totalDuration; 4 s in the scenario.
C14_NominalTotalBoundsNarration ==
    audioGraph.narration # <<>> =>
        /\ audioGraph.narration[1].duration =
              Min(TrimWindowOnPlayback,
                  SumOfDurations(scenes, DoneSelectedPositions(scenes)))
        /\ NarrationScenario => audioGraph.narration[1].duration = 160

\* C14, amended: the duration passed to the narration source's start call
\* is the smaller of the trim window divided by the playback rate and the
\* totalDuration of the export, which is divided by the playback rate too;
\* 3 s in the scenario.
C14_NarrationStartDuration ==
    audioGraph.narration # <<>> =>
        /\ audioGraph.narration[1].duration =
              Min(TrimWindowOnPlayback,
                  SumOnPlayback(scenes, DoneSelectedPositions(scenes), playbackRate))
        /\ NarrationScenario => audioGraph.narration[1].duration = 120

C14_Witness ==
    /\ exportPc = "recording"
    /\ audioGraph.narration # <<>>
    /\ NarrationScenario

\* The part of the buffer a looping source repeats: the whole buffer while
\* loopStart and loopEnd are both 0.
LoopRegion(source, length) ==
    IF source.loopStart = 0 /\ source.loopEnd = 0 THEN <<0, length>>
    ELSE <<source.loopStart, source.loopEnd>>

\* What the start call of scene k's music source must be.
MusicIsStartedForScene(k) ==
    LET music == scenes[k].music
        sceneStart == SumOnPlayback(scenes, PositionsBefore(scenes, k), playbackRate)
        sceneDuration == SumOnPlayback(scenes, PositionsOf(scenes, k), playbackRate)
        trimmed == MusicTrimEnd(music) - MusicTrimStart(music)
    IN  IF music.url # NoUrl /\ sceneDuration > 0
        THEN /\ Len(audioGraph.music[k]) = 1
             /\ audioGraph.music[k][1].when = sceneStart
             /\ audioGraph.music[k][1].offset = MusicTrimStart(music)
             /\ audioGraph.music[k][1].duration = sceneDuration
             /\ audioGraph.music[k][1].loop = (trimmed > 0 /\ sceneDuration > trimmed)
        ELSE audioGraph.music[k] = <<>>

\* C15: in an export every scene with music and a positive duration has one
\* music source, started at the scene's start on the timeline, reading from
\* the music's trimStart, for the scene's duration; it loops exactly when the
\* scene is longer than the trimmed music, and what it loops is the trim
\* window.
C15_MusicSourcePerScene ==
    exportPc = "recording" =>
        \A k \in 1..Len(scenes) :
            /\ MusicIsStartedForScene(k)
            /\ (audioGraph.music[k] # <<>> /\ audioGraph.music[k][1].loop) =>
                  LoopRegion(audioGraph.music[k][1], scenes[k].music.length)
                     = <<MusicTrimStart(scenes[k].music), MusicTrimEnd(scenes[k].music)>>

(***************************************************************************)
(* Properties of timelines without length                                  *)
(***************************************************************************)
\* C16: while totalDuration is 0 a sampler tick leaves the transport paused
\* at trimStart, and no step of an export leaves a recorder recording or a
\* finished video reported.
C16_EmptyTimelineIsInert ==
    [][SumOfDurations(scenes, DoneSelectedPositions(scenes)) = 0 =>
          /\ SamplerTick => (/\ playbackState' = "paused"
                             /\ audioTime' = videoConfig.trimStart)
          /\ recorderState' # "recording"
          /\ ~videoReady']_vars


\* The image that the request r names, when the scene list still holds it.
HoldsImageOf(sc, r) ==
    r.scene \in 1..Len(sc) /\ r.image \in 1..Len(sc[r.scene].images)

\* The request that handleBatchGenerate is waiting for settles with outcome.
BatchRequestSettles(r, outcome) == r.batch /\ RunImageGeneration(r, outcome)

\* C17: a batch is not aborted by a failure.  Whenever the request that the
\* batch waits for settles, with success or with any kind of failure, the
\* image of its scene becomes done and selected on success and error on
\* failure (as long as the scene is still in the list), the request of the
\* next placeholder is issued if there is one, and isBatchGenerating becomes
\* false exactly when there is none; a batch started without a reference
\* image turns every placeholder into an error and is over at once; and a
\* running batch always has a request it is waiting for.
C17_BatchSurvivesFailures ==
    [][ /\ isBatchGenerating' => \E r \in requests' : r.batch
        /\ \A r \in requests, outcome \in Outcomes :
              BatchRequestSettles(r, outcome) =>
                /\ HoldsImageOf(scenes, r) =>
                      LET image == scenes'[r.scene].images[r.image]
                      IN  IF outcome.kind = "success"
                          THEN image.status = "done" /\ image.isSelected
                          ELSE image.status = "error"
                /\ batchQueue # <<>> =>
                      /\ Request(Head(batchQueue), 1, TRUE) \in requests'
                      /\ isBatchGenerating'
                /\ batchQueue = <<>> => ~isBatchGenerating'
        /\ (HandleBatchGenerate /\ referenceImages = 0) =>
              /\ ~isBatchGenerating'
              /\ \A k \in 1..Len(scenes) :
                    ShouldGenerate(scenes[k]) =>
                        scenes'[k].images[1].status = "error"
      ]_vars

\* A batch over three scenes is over: the first and the third scene failed,
\* the second one, generated after the first failure, is done and selected.
C17_Witness ==
    /\ ~isBatchGenerating
    /\ requests = {}
    /\ Len(scenes) = 3
    /\ \A k \in 1..3 : Len(scenes[k].images) = 1
    /\ scenes[1].images[1].status = "error"
    /\ scenes[2].images[1].status = "done" /\ scenes[2].images[1].isSelected
    /\ scenes[3].images[1].status = "error"


\* The requests that handleBatchGenerate has issued and that have not settled.
BatchIssued == {r \in requests : r.batch}

\* C18: the requests of a batch are issued one at a time and in scene order.
\* At most one request issued by handleBatchGenerate is outstanding, the
\* placeholders that wait are those of later scenes in increasing order, and
\* a new batch request appears only in the step that starts the batch or in
\* the step in which the previous batch request settles.
C18_BatchIsSequential ==
    [][ /\ Cardinality(BatchIssued') <= 1
        /\ \A k \in 1..Len(batchQueue') :
              /\ k > 1 /\ batchQueue'[k] # NoScene => batchQueue'[k - 1] < batchQueue'[k]
              /\ \A r \in BatchIssued' :
                    batchQueue'[k] # NoScene => r.scene < batchQueue'[k]
        /\ (BatchIssued' \ BatchIssued # {}) =>
              \/ BatchIssued = {} /\ ~isBatchGenerating
              \/ \E r \in BatchIssued : r \notin requests'
      ]_vars

\* A batch waits for the request of its second scene while the third scene
\* waits its turn and a retry of the first one is outstanding as well.
C18_Witness ==
    /\ isBatchGenerating
    /\ BatchIssued = {Request(2, 1, TRUE)}
    /\ batchQueue = <<3>>
    /\ Request(1, 1, FALSE) \in requests


\* A request of the scene step or of the character step settles with outcome.
RequestSettles(outcome) ==
    \/ \E r \in requests : RunImageGeneration(r, outcome)
    \/ GenerateImageFromText(outcome)

\* C19: the stored key is marked invalid only by a credential error: no step
\* but the settling of a request changes its status, and a request that
\* settles with success, a quota failure, a content-filter failure or a
\* malformed response leaves the status as it was.
C19_OnlyCredentialErrorsInvalidate ==
    [][ /\ keyStatus' # keyStatus => \E outcome \in Failures : RequestSettles(outcome)
        /\ \A outcome \in Outcomes :
              (outcome.kind # "credential" /\ RequestSettles(outcome)) =>
                  keyStatus' = keyStatus
      ]_vars


\* sc2 holds every image of sc as sc holds it, but for image i of scene s.
ImagesKeptBut(sc, sc2, s, i) ==
    /\ Len(sc2) = Len(sc)
    /\ \A k \in 1..Len(sc) :
          /\ Len(sc2[k].images) >= Len(sc[k].images)
          /\ \A j \in 1..Len(sc[k].images) :
                (k # s \/ j # i) => sc2[k].images[j] = sc[k].images[j]

\* sc2 holds the music and the overlay of every scene of sc but scene s.
SettingsKeptBut(sc, sc2, s) ==
    /\ Len(sc2) = Len(sc)
    /\ \A k \in 1..Len(sc) :
          k # s => sc2[k].music = sc[k].music /\ sc2[k].overlay = sc[k].overlay

\* C20: no scene update is lost.  Every scene-mutating step leaves in the list
\* whatever the steps before it have put there, apart from the one thing it
\* sets itself: a settled generation request and a duration edit change one
\* image, an upload adds images to one scene, a music setting changes the
\* music of one scene, and a step of an overlay drag changes the overlay of
\* one scene.
C20_NoSceneUpdateIsLost ==
    [][ /\ \A r \in requests, outcome \in Outcomes :
              RunImageGeneration(r, outcome) =>
                  /\ ImagesKeptBut(scenes, scenes', r.scene, r.image)
                  /\ SettingsKeptBut(scenes, scenes', NoScene)
        /\ \A s \in 1..Len(scenes) :
              HandleFileChange(s) =>
                  /\ ImagesKeptBut(scenes, scenes', NoScene, 0)
                  /\ SettingsKeptBut(scenes, scenes', NoScene)
        /\ \A s \in 1..Len(scenes), i \in 1..MaxImages, str \in EditDurationStrs :
              HandleImageDurationChange(s, i, str) =>
                  /\ ImagesKeptBut(scenes, scenes', s, i)
                  /\ SettingsKeptBut(scenes, scenes', NoScene)
        /\ \A s \in 1..Len(scenes) :
              ((\E length \in MusicLengths : HandleMusicFileChange(s, length))
                  \/ HandleMusicMetadata(s)) =>
                  /\ ImagesKeptBut(scenes, scenes', NoScene, 0)
                  /\ SettingsKeptBut(scenes, scenes', s)
                  /\ scenes'[s].overlay = scenes[s].overlay
        /\ (\E dx \in DragSteps, c \in EditContainers : HandleMouseMove(dx, 0, c)) =>
                  /\ ImagesKeptBut(scenes, scenes', NoScene, 0)
                  /\ SettingsKeptBut(scenes, scenes', mouseListener.scene)
                  /\ scenes'[mouseListener.scene].music
                        = scenes[mouseListener.scene].music
      ]_vars


\* The trim window of the narration lies inside the narration.
NarrationTrimIsValid ==
    (videoConfig.audioFile /\ audioDuration > 0) =>
        LET trimEnd == OrElse(videoConfig.trimEnd, audioDuration)
        IN  trimEnd <= audioDuration /\ videoConfig.trimStart < trimEnd

\* The trim window of the music of every scene lies inside that music.
MusicTrimIsValid ==
    \A k \in 1..Len(scenes) :
        LET music == scenes[k].music
        IN  (music.url # NoUrl /\ music.duration # Null) =>
                LET trimStart == OrElse(music.trimStart, 0)
                    trimEnd == OrElse(music.trimEnd, music.duration)
                IN  trimEnd <= music.duration /\ trimStart < trimEnd

\* C21: whenever the duration of a track is known, of the narration or of the
\* background music of a scene, its trimEnd is at most that duration and its
\* trimStart is below its trimEnd.
C21_TrimWindowIsValid == NarrationTrimIsValid /\ MusicTrimIsValid


(***************************************************************************)
(* Properties of the overlay rectangle                                     *)
(***************************************************************************)
\* The overlay that the listener of the running interaction closes over.
ListenerOverlay == mouseListener.scenes[mouseListener.scene].overlay

\* A step of a drag with the pointer where the mousedown was, measured
\* against the container c of the mousedown, with no dimension clamped.
ZeroDeltaDrag(c) ==
    /\ HandleMouseMove(0, 0, c)
    /\ mouseListener.type = "drag"
    /\ mouseListener.startRect = StartRect(ListenerOverlay, c)
    /\ ClampedRect(mouseListener.startRect) = mouseListener.startRect

\* C22: converting the overlay rectangle from percentages to pixels of the
\* container and back, as a drag step with zero pointer delta does above the
\* minimum size, reproduces the original x, y, width and height.
C22_RoundTripReproducesRect ==
    [][\A c \in ContainerRects :
          ZeroDeltaDrag(c) =>
              \A f \in RectFields :
                  scenes'[mouseListener.scene].overlay[f] = ListenerOverlay[f]]_vars


\* The rectangle, in pixels, that a mouse-move step with the pointer at
\* (dx, dy) from the mousedown commits.
CommittedRect(dx, dy) ==
    NewRect(mouseListener.type, mouseListener.handle, mouseListener.startRect, dx, dy)

\* The overlay of the scene of the running interaction, as scenes has it.
CurrentOverlay == scenes[mouseListener.scene].overlay

\* The latest mouse-move step of the running interaction had the pointer at
\* (dx, dy) from the mousedown and measured the container c.
Committed(dx, dy, c) ==
    /\ mouseListener # NoListener
    /\ CurrentOverlay = OverlayAt(ListenerOverlay, CommittedRect(dx, dy), c)

\* A committed rectangle has the minimum size, and the width and the height
\* that the overlay stores for it are greater than 0.
HasMinimumSize(rect, overlay) ==
    \A f \in {"width", "height"} :
        ~LessThan(rect[f], MinSizeNumber) /\ LessThan(Zero, overlay[f])

\* C23: after every committed drag or resize step the width and the height
\* of the overlay are at least the minimum visible size, 20 px of the
\* container the step measures, whatever handle movements came before; the
\* size is never negative.
C23_SizeNeverBelowMinimum ==
    \A dx \in PointerDx, dy \in PointerDy, c \in ContainerRects :
        Committed(dx, dy, c) => HasMinimumSize(CommittedRect(dx, dy), CurrentOverlay)

\* A resize has pulled the width of the overlay down to the minimum.
C23_Witness ==
    /\ mouseListener # NoListener
    /\ mouseListener.type = "resize"
    /\ \E c \in ContainerRects :
          scenes[mouseListener.scene].overlay.width
              = Times(Over(MinSizeNumber, c.width), 100)


\* An edge of a rectangle in pixels.
Edge(rect, side) ==
    CASE side = "left" -> rect.x
      [] side = "right" -> Plus(rect.x, rect.width)
      [] side = "top" -> rect.y
      [] side = "bottom" -> Plus(rect.y, rect.height)

\* From startRect to rect a drag has kept the size, and a resize has kept the
\* edges that the handle does not name.
OnlyActiveEdgesMoved(type, handle, startRect, rect) ==
    IF type = "drag"
    THEN rect.width = startRect.width /\ rect.height = startRect.height
    ELSE \A side \in {"left", "right", "top", "bottom"} :
            ~HandleIncludes(handle, side) => Edge(rect, side) = Edge(startRect, side)

\* C24: a resize step moves only the edges that belong to the active handle,
\* one for an edge handle and the two adjacent ones for a corner handle; the
\* opposite edges stay where they were at the mousedown for every pointer
\* delta, also when the minimum-size clamp applies; a drag step changes x and
\* y only.
C24_ResizeMovesOnlyActiveEdges ==
    \A dx \in PointerDx, dy \in PointerDy, c \in ContainerRects :
        Committed(dx, dy, c) =>
            OnlyActiveEdgesMoved(mouseListener.type, mouseListener.handle,
                                 mouseListener.startRect, CommittedRect(dx, dy))


\* C25: seeking to scene i, in the paused as in the playing state, puts the
\* narration at sceneStartTimes[i] + trimStart and makes i the current scene
\* index, and leaves the playback state as it was.
C25_SeekMovesClockToScene ==
    [][\A i \in 0..(PipelineMaxScenes - 1) :
          HandleSeek(i) =>
              /\ audioTime' = PreviewTimeline(scenes).sceneStartTimes[i + 1]
                                 + videoConfig.trimStart
              /\ currentSceneIndex' = i
              /\ playbackState' = playbackState]_vars

(***************************************************************************)
(* Properties of the transport without a narration and with failed tracks  *)
(***************************************************************************)
\* C26: while no narration file is loaded, play and restart change nothing:
\* the transport is paused, no sampler timer is scheduled, and neither the
\* narration element nor the background music nor the overlay video plays.
C26_NoTransportWithoutNarration ==
    ~videoConfig.audioFile =>
        /\ playbackState = "paused"
        /\ ~intervalRef
        /\ liveTimers = 0
        /\ audioPaused
        /\ bgAudio.paused
        /\ overlayPaused

\* No narration is loaded, the current scene has music and a video overlay
\* that decode, and a render has run the effects for an edit of the music.
C26_Witness ==
    /\ ~videoConfig.audioFile
    /\ EditorVisible
    /\ Decodes(scenes[1].music.url)
    /\ scenes[1].music.url # NoUrl
    /\ scenes[1].music.trimEnd = 40
    /\ HasOverlayVideo(scenes, currentSceneIndex)
    /\ Decodes(scenes[1].overlay.url)

\* The current scene has music or a video overlay that does not decode.
FailedTrack(sc, idx) ==
    /\ HasCurrentScene(sc, idx)
    /\ \/ ~Decodes(sc[idx + 1].music.url)
       \/ HasOverlayVideo(sc, idx) /\ ~Decodes(sc[idx + 1].overlay.url)

\* The scene the sampler finds for the narration's position
SceneOfClock ==
    LET tl == PreviewTimeline(scenes)
        sceneIdx == SamplerSceneIndex(tl.sceneStartTimes, tl.totalDuration,
                                      audioTime - videoConfig.trimStart)
    IN  IF sceneIdx # 0 THEN sceneIdx - 1 ELSE currentSceneIndex

\* The narration has reached the end of the video or its own end.
AtEndOfPlayback ==
    \/ audioTime >= EffectiveEndTime(videoConfig, PreviewTimeline(scenes).totalDuration)
    \/ Ended(Element, videoConfig)

\* C27: a background music or an overlay video that does not decode never
\* halts the transport: in the playing state with such a track in the
\* current scene the sampler timer is scheduled; the step that starts the
\* playback with such a track starts the narration; and a run of the sampler
\* before the end of playback, in or into a scene with such a track, leaves
\* the state playing, does not pause the narration and sets the current
\* scene from the narration's position.
C27_FailedTrackNeverHaltsTransport ==
    [][/\ (FailedTrack(scenes', currentSceneIndex') /\ playbackState' = "playing") =>
              /\ intervalRef'
              /\ liveTimers' > 0
              /\ playbackState = "paused" => ~audioPaused'
       /\ (/\ playbackState = "playing"
           /\ ~AtEndOfPlayback
           /\ SamplerTick
           /\ \/ FailedTrack(scenes, currentSceneIndex)
              \/ FailedTrack(scenes', currentSceneIndex')) =>
              /\ playbackState' = "playing"
              /\ audioPaused' => audioPaused
              /\ currentSceneIndex' = SceneOfClock]_vars

\* The transport plays the second scene after the sampler has taken it
\* through the first, and neither scene's music or overlay video decodes.
C27_Witness ==
    /\ playbackState = "playing"
    /\ currentSceneIndex = 1
    /\ ~Decodes(scenes[1].music.url)
    /\ ~Decodes(scenes[1].overlay.url)
    /\ FailedTrack(scenes, currentSceneIndex)
    /\ bgAudio.paused
    /\ overlayPaused
    /\ ~audioPaused
    /\ intervalRef

(***************************************************************************)
(* Properties of the split of the story                                    *)
(***************************************************************************)
\* The text is a bracketed list of string literals separated by commas.
IsListOfStringLiterals(text) ==
    /\ Len(text) >= 2
    /\ text[1].t = "["
    /\ text[Len(text)].t = "]"
    /\ Len(text) = 2 \/ Len(text) % 2 = 1
    /\ \A k \in 2..(Len(text) - 1) :
          text[k].t = IF k % 2 = 0 THEN "string" ELSE ","

\* C28: the split succeeds only for a reply whose text is a JSON list of
\* strings, and then the scene list becomes one scene per string, in the
\* order of the reply, each with its description and no images; for any
\* other text and for a failed call the scene list stays as it was.
C28_SplitReplacesOrKeepsScenes ==
    [][\A reply \in SplitReplies :
          HandleSplitScenes(SplitStoryIntoScenes(reply)) =>
              IF reply.kind = "text" /\ IsListOfStringLiterals(reply.text)
              THEN /\ Len(scenes') = (Len(reply.text) - 1) \div 2
                   /\ \A k \in 1..Len(scenes') :
                         /\ scenes'[k].description = reply.text[2 * k].v
                         /\ scenes'[k].images = <<>>
              ELSE scenes' = scenes]_vars

\* The list holds the two scenes of a reply in its order, and a failed call
\* that marked the key has left a list of the kind untouched.
C28_Witness ==
    /\ Len(scenes) = 2
    /\ scenes[1] = NewScene(2)
    /\ scenes[2] = NewScene(1)
    /\ keyStatus = "invalid"

(***************************************************************************)
(* Properties of images without a display duration                         *)
(***************************************************************************)
\* The urls of the segments of a timeline
SegmentUrls(timeline) == {timeline[k].url : k \in 1..Len(timeline)}

\* C29: an image whose duration is not greater than 0, as after its duration
\* field was cleared, has no segment in the timeline of the preview or of the
\* export and is not the image the player displays.
C29_ImagesWithoutDurationAreLeftOut ==
    \A s \in 1..Len(scenes) :
        \A i \in 1..Len(scenes[s].images) :
            scenes[s].images[i].duration <= 0 =>
                /\ scenes[s].images[i].url
                      \notin SegmentUrls(PreviewTimeline(scenes).imageTimeline)
                /\ scenes[s].images[i].url
                      \notin SegmentUrls(ExportTimeline(scenes, playbackRate).imageTimeline)
                /\ imageBuffer[activeBufferIndex + 1] # scenes[s].images[i].url

(***************************************************************************)
(* Properties of the frames of an export                                   *)
(***************************************************************************)
\* The transition window of 0.5 s, in ticks
TransitionWindow == 20

\* The opacity of the next image, in percent, when `remaining` ticks are
\* left of the current segment: 1 - remaining / 0.5, kept within [0, 1]
FadeProgress(remaining) ==
    LET p == 100 - (100 * remaining) \div TransitionWindow
    IN  IF p < 0 THEN 0 ELSE IF p > 100 THEN 100 ELSE p

\* C30: a frame of the export drawn when less than the transition window is
\* left of the current segment and a next segment exists shows the current
\* image at opacity 1 - p and the next one at opacity p, for
\* p = 1 - remaining / 0.5 within [0, 1]; every other frame shows the current
\* image alone, at full opacity.
C30_FramesCrossFade ==
    LET tl == ExportTimeline(scenes, playbackRate)
        idx == DrawSegmentIndex(tl.imageTimeline, elapsedTime, tl.totalDuration)
        remaining == tl.imageTimeline[idx].endTime - elapsedTime
        drawn == DrawnImages(tl.imageTimeline, mediaElements, elapsedTime,
                             tl.totalDuration)
    IN  (exportPc = "recording" /\ framesDrawn > 0 /\ idx # 0) =>
            IF idx < Len(tl.imageTimeline) /\ remaining < TransitionWindow
            THEN drawn = <<[url |-> tl.imageTimeline[idx].url,
                            alpha |-> 100 - FadeProgress(remaining)],
                           [url |-> tl.imageTimeline[idx + 1].url,
                            alpha |-> FadeProgress(remaining)]>>
            ELSE drawn = <<[url |-> tl.imageTimeline[idx].url, alpha |-> 100]>>

(***************************************************************************)
(* Properties of the image buffer of the preview                           *)
(***************************************************************************)
\* The segment that is active at the narration's position, 0 for none
ActiveSegment ==
    FindSegmentIndex(PreviewTimeline(scenes).imageTimeline,
                     audioTime - videoConfig.trimStart)

\* The url of the active segment's image
ActiveImageUrl == PreviewTimeline(scenes).imageTimeline[ActiveSegment].url

\* C31: the buffer has two slots and the active index is 0 or 1; a run of
\* the sampler before the end of playback that finds the active segment's
\* image different from the image in the active slot writes it into the
\* other slot and flips the active index, the image displayed so far stays
\* in its slot, and after the swap the active slot holds the active
\* segment's image.
C31_BufferSwapsToActiveSegment ==
    [][/\ activeBufferIndex' \in {0, 1}
       /\ Len(imageBuffer') = 2
       /\ (/\ SamplerTick
           /\ ~AtEndOfPlayback
           /\ ActiveSegment # 0
           /\ ActiveImageUrl # imageBuffer[activeBufferIndex + 1]) =>
              /\ activeBufferIndex' = 1 - activeBufferIndex
              /\ imageBuffer'[activeBufferIndex' + 1] = ActiveImageUrl
              /\ imageBuffer'[activeBufferIndex + 1] = imageBuffer[activeBufferIndex + 1]]_vars

\* The sampler has swapped: the second slot is active and holds the active
\* segment's image, the first one still holds the image shown before.
C31_Witness ==
    /\ playbackState = "playing"
    /\ activeBufferIndex = 1
    /\ ActiveSegment # 0
    /\ imageBuffer[2] = ActiveImageUrl
    /\ imageBuffer[1] # NoUrl
    /\ imageBuffer[1] # imageBuffer[2]

(***************************************************************************)
(* Properties of the music at the start of playback                        *)
(***************************************************************************)
\* The scene that holds the narration's position in the timeline, 0 for none
SceneAtClock ==
    LET tl == PreviewTimeline(scenes)
    IN  SamplerSceneIndex(tl.sceneStartTimes, tl.totalDuration,
                          audioTime - videoConfig.trimStart)

\* The url of the music of that scene
MusicAtClock == IF SceneAtClock = 0 THEN NoUrl ELSE scenes[SceneAtClock].music.url

\* C32: when the transport enters the playing state, by play, resume,
\* replay after the end or restart, the background music that plays after
\* the step is the music of the scene that holds the narration's position.
C32_MusicOfSceneAtClock ==
    [][(\/ playbackState = "paused" /\ playbackState' = "playing"
        \/ HandleRestart) =>
          (~bgAudio'.paused => bgAudio'.src = MusicAtClock')]_vars

\* The number lies within 0..100
IsPercent(a) == ~a.neg /\ ~LessThan(Number(100), a)

\* C33: the x and the y of every overlay lie within 0..100, percent of the
\* container, after any sequence of drag and resize steps.
C33_OverlayPositionIsPercent ==
    \A s \in 1..Len(scenes) :
        IsPercent(scenes[s].overlay.x) /\ IsPercent(scenes[s].overlay.y)

(***************************************************************************)
(* Properties of scene edits that keep the timeline                        *)
(***************************************************************************)
\* C34: an edit of the scene list that leaves every image and duration, and
\* so the timeline, as it was (a step of an overlay drag or resize, a change
\* of a volume, of a music trim or of the music's metadata) leaves the
\* narration's position, the image buffer with its active index and the
\* playback state unchanged.
C34_SettingEditsKeepTransport ==
    [][(scenes' # scenes /\ PreviewTimeline(scenes') = PreviewTimeline(scenes)) =>
          UNCHANGED <<audioTime, imageBuffer, activeBufferIndex, playbackState>>]_vars


\* The scene whose images give the n-th segment of the timeline (0 if none).
OwnerOfSegment(sc, n) ==
    LET owners == {k \in 1..Len(sc) :
                      /\ Cardinality(PositionsBefore(sc, k)) < n
                      /\ n <= Cardinality(PositionsBefore(sc, k))
                                + Cardinality(PositionsOf(sc, k))}
    IN  IF owners = {} THEN 0 ELSE CHOOSE k \in owners : TRUE

\* The scan of the scene start times and the segment lookup agree at every
\* time of the preview and of the export, and never return an empty scene.
LookupsAgree(sc) ==
    LET preview == PreviewTimeline(sc)
    IN  /\ \A t \in 0..(preview.totalDuration - 1) :
              LET found == SamplerSceneIndex(preview.sceneStartTimes,
                                             preview.totalDuration, t)
              IN  /\ found # 0
                  /\ found = OwnerOfSegment(sc,
                                SamplerSegmentIndex(preview.imageTimeline, t))
                  /\ PositionsOf(sc, found) # {}
        /\ \A rate \in SpeedOptions :
              LET export == ExportTimeline(sc, rate)
              IN  \A e \in 0..(export.totalDuration - 1) :
                    LET found == DrawSceneIndex(export.sceneTimings, e)
                    IN  /\ found # 0
                        /\ found = OwnerOfSegment(sc,
                                      DrawSegmentIndex(export.imageTimeline, e,
                                                       export.totalDuration))
                        /\ export.sceneTimings[found].duration > 0

\* C35: at every time of the timeline the scene found by scanning the scene
\* start times is the scene that owns the active segment, in the sampler and
\* in the draw loop, and a scene of duration 0 is never made the active
\* scene, whether by the sampler or by the scene scrubber.
C35_SceneAndSegmentLookupsAgree ==
    [][ /\ LookupsAgree(scenes')
        /\ (SamplerTick \/ \E sceneIdx \in 0..(PipelineMaxScenes - 1) : HandleSeek(sceneIdx))
              => (currentSceneIndex' # currentSceneIndex
                    => PositionsOf(scenes', currentSceneIndex' + 1) # {}) ]_vars


\* a / rate, rounded once
NominalOverRate(a, rate) == Over(Times(a, rate.den), rate.num)

\* |a|
Magnitude(a) == IF a = Zero THEN Zero ELSE [a EXCEPT !.neg = FALSE]

\* The done and selected images of a scene list, in timeline order.
RECURSIVE TimelineImages(_)
TimelineImages(sc) ==
    IF sc = <<>> THEN <<>> ELSE SelectedImages(Head(sc)) \o TimelineImages(Tail(sc))

\* The sum of the magnitudes of the durations of the images, each divided by
\* the rate.
RECURSIVE MagnitudeSum(_, _)
MagnitudeSum(images, rate) ==
    IF images = <<>> THEN Zero
    ELSE Plus(Magnitude(NominalOverRate(Seconds(Head(images).duration), rate)),
              MagnitudeSum(Tail(images), rate))

\* (segments + 1) * 2^-52 * (sum of the magnitudes of duration / rate)
RoundingDistance(sc, rate) ==
    LET t == Times(MagnitudeSum(TimelineImages(sc), rate), Len(TimelineImages(sc)) + 1)
    IN  IF t = Zero THEN Zero ELSE [t EXCEPT !.e = t.e - 52]

\* |a - b| is at most tol
Within(a, b, tol) == ~LessThan(tol, Magnitude(Minus(a, b)))

\* The end of scene k in the preview: the next scene's start, or the total.
PreviewSceneEnd(preview, k) ==
    IF k < Len(preview.sceneStartTimes) THEN preview.sceneStartTimes[k + 1]
    ELSE preview.totalDuration

\* Pairs <<export time, preview time>> that the claim puts in
\* correspondence: starts and ends of the segments, starts of the scenes and
\* the totals.
Boundaries(preview, export) ==
    {<<export.imageTimeline[i].startTime, preview.imageTimeline[i].startTime>> :
        i \in 1..Len(export.imageTimeline)}
    \cup {<<export.imageTimeline[i].endTime, preview.imageTimeline[i].endTime>> :
        i \in 1..Len(export.imageTimeline)}
    \cup {<<export.sceneTimings[k].startTime, preview.sceneStartTimes[k]>> :
        k \in 1..Len(export.sceneTimings)}
    \cup {<<export.totalDuration, preview.totalDuration>>}

\* The same for the ends of the scenes: startTime + duration in the export,
\* the next scene's start or the total in the preview.
SceneEnds(preview, export) ==
    {<<Plus(export.sceneTimings[k].startTime, export.sceneTimings[k].duration),
       PreviewSceneEnd(preview, k)>> : k \in 1..Len(export.sceneTimings)}

\* The export timeline has the segments and the scenes of the preview one.
SameStructure(preview, export) ==
    /\ Len(export.imageTimeline) = Len(preview.imageTimeline)
    /\ Len(export.sceneTimings) = Len(preview.sceneStartTimes)
    /\ \A i \in 1..Len(export.imageTimeline) :
          export.imageTimeline[i].url = preview.imageTimeline[i].url

\* The middle of the i-th export segment.
Middle(export, i) ==
    Over(Plus(export.imageTimeline[i].startTime, export.imageTimeline[i].endTime), 2)

\* The image active at export time e is the image active in the preview at
\* the nominal time e * rate.
SameActiveImage(preview, export, rate, e) ==
    FindSegmentIndexNumber(export.imageTimeline, e)
        = FindSegmentIndexNumber(preview.imageTimeline, MultipliedByRate(e, rate))

\* C36 as stated: every export segment and scene timing is the preview one
\* with start and end divided by the rate, the export totalDuration is the
\* nominal one divided by the rate, and the image active at an export time e
\* (taken at the start and at the middle of every segment) is the image
\* active in the preview at e * rate.
C36_ExportIsPreviewOverRate ==
    LET preview == PreviewTimelineNumber(scenes)
        export == ExportTimelineNumber(scenes, playbackRate)
    IN  /\ SameStructure(preview, export)
        /\ \A b \in Boundaries(preview, export) \cup SceneEnds(preview, export) :
              b[1] = NominalOverRate(b[2], playbackRate)
        /\ \A i \in 1..Len(export.imageTimeline) :
              /\ SameActiveImage(preview, export, playbackRate,
                                 export.imageTimeline[i].startTime)
              /\ SameActiveImage(preview, export, playbackRate, Middle(export, i))

\* C36, amended: the export timeline has the segments and scenes of the
\* preview one; at the rates 1 and 2 every segment start and end, every
\* scene start and the total is the preview one divided by the rate; at
\* every rate these, and the scene ends (startTime + duration), are that up
\* to rounding, within (segments + 1) * 2^-52 * (sum of the magnitudes of
\* duration / rate), and the image active at the middle of an export segment
\* that is farther than that from every boundary is the image active in the
\* preview at that time multiplied by the rate.
C36_ExportIsPreviewOverRateUpToRounding ==
    LET preview == PreviewTimelineNumber(scenes)
        export == ExportTimelineNumber(scenes, playbackRate)
        tol == RoundingDistance(scenes, playbackRate)
    IN  /\ SameStructure(preview, export)
        /\ playbackRate \in {RateOne, [num |-> 2, den |-> 1]}
              => \A b \in Boundaries(preview, export) :
                    b[1] = NominalOverRate(b[2], playbackRate)
        /\ \A b \in Boundaries(preview, export) \cup SceneEnds(preview, export) :
              Within(b[1], NominalOverRate(b[2], playbackRate), tol)
        /\ \A i \in 1..Len(export.imageTimeline) :
              (\A b \in Boundaries(preview, export) :
                    ~Within(Middle(export, i), b[1], tol))
                => SameActiveImage(preview, export, playbackRate, Middle(export, i))

\* Two segments at the rate 0.75 whose total is not the nominal total
\* divided by the rate.
C36_Witness ==
    LET preview == PreviewTimelineNumber(scenes)
        export == ExportTimelineNumber(scenes, playbackRate)
    IN  /\ playbackRate = [num |-> 3, den |-> 4]
        /\ Len(export.imageTimeline) = 2
        /\ export.totalDuration # NominalOverRate(preview.totalDuration, playbackRate)
        /\ SameActiveImage(preview, export, playbackRate, Middle(export, 2))


\* C37: in every state isExporting and videoReady are not both true, and
\* videoReady holds only while the blob and the url of the export that was
\* started last, and that ended with the recorder's stop, are in place.
C37_ExportFlagsConsistent ==
    /\ ~(isExporting /\ videoReady)
    /\ videoReady => /\ exportedVideoBlob # NoUrl
                     /\ exportedVideoUrl # NoUrl
                     /\ exportPc = "done"
                     /\ createResult = "started"

\* A finished export: the video is ready and the export no longer runs.
C37_Witness ==
    /\ videoReady
    /\ ~isExporting
    /\ exportedVideoUrl # NoUrl
    /\ exportPc = "done"


\* An export was started on a timeline of positive length.
ExportStarted ==
    /\ isExporting
    /\ exportPc = "preload"
    /\ ExportTimeline(scenes, playbackRate).totalDuration > 0

\* The export came to its end: the draw loop stopped the recorder, the stop
\* handler cleared isExporting and set videoReady.
ExportCompleted ==
    /\ exportPc = "done"
    /\ stoppedByDrawLoop
    /\ ~isExporting
    /\ videoReady

\* C38: an export that was started with totalDuration > 0 and whose preloads
\* and audio decoding succeed completes in the end: the draw loop reaches
\* elapsed >= totalDuration and stops the recorder once, and the export ends
\* with isExporting = false and videoReady = true.
C38_ExportCompletes == ExportStarted ~> ExportCompleted


(***************************************************************************)
(* Properties of the durations from the narration                          *)
(***************************************************************************)
\* the trimmed length of the narration, in ticks
TrimmedLength == OrElse(videoConfig.trimEnd, audioDuration) - videoConfig.trimStart

AdjustApplies ==
    /\ videoConfig.audioFile
    /\ audioDuration # 0
    /\ TrimmedLength > 0
    /\ DoneSelectedPositions(scenes) # {}

Distance(a, b) == IF a < b THEN b - a ELSE a - b

\* 0.05 s, the most that rounding to 0.1 s moves a duration, for each of the
\* done and selected images, in ticks
RoundingOfDurations(sc) == 2 * Cardinality(DoneSelectedPositions(sc))

OthersUnchanged(before, after) ==
    /\ Len(after) = Len(before)
    /\ \A k \in 1..Len(before) :
          /\ Len(after[k].images) = Len(before[k].images)
          /\ \A i \in 1..Len(before[k].images) :
                ~Eligible(before[k].images[i])
                   => after[k].images[i] = before[k].images[i]

\* C39: after handleAutoAdjustDurations has run with a narration of positive
\* trimmed length and at least one done and selected image, every such image
\* lasts at least 0.2 s, the other images are unchanged and the total
\* duration of the timeline is the trimmed length of the narration up to the
\* rounding of each duration to 0.1 s; without a narration, with an unknown
\* duration, a trimmed length that is not positive or no such image, the
\* scene list is unchanged.
C39_DurationsFillTheNarration ==
    [][HandleAutoAdjustDurations =>
          IF AdjustApplies
          THEN /\ \A p \in DoneSelectedPositions(scenes') :
                     scenes'[p[1]].images[p[2]].duration >= 8
               /\ OthersUnchanged(scenes, scenes')
               /\ Distance(PreviewTimeline(scenes').totalDuration, TrimmedLength)
                     <= RoundingOfDurations(scenes)
          ELSE scenes' = scenes]_vars


(***************************************************************************)
(* Properties of the start of a batch                                      *)
(***************************************************************************)
HasDoneOrGenerating(scene) ==
    \E j \in 1..Len(scene.images) : scene.images[j].status \in {"done", "generating"}

\* a selected image of 3 s without a url
GeneratingPlaceholder ==
    [url |-> NoUrl, isSelected |-> TRUE, status |-> "generating", duration |-> 120]

\* The requests a step starts for scene k: those sent in the step and those
\* of the placeholders the loop of the batch has still to reach.
RequestsStartedFor(k) ==
    Cardinality({r \in requests' \ requests : r.scene = k})
        + Cardinality({q \in 1..Len(batchQueue') : batchQueue'[q] = k})

BatchReplaces(k) ==
    /\ scenes'[k].images = <<GeneratingPlaceholder>>
    /\ RequestsStartedFor(k) = 1

BatchKeeps(k) ==
    /\ scenes'[k].images = scenes[k].images
    /\ RequestsStartedFor(k) = 0

\* C40 as stated: handleBatchGenerate replaces the images of every scene
\* without a done or generating image by one generating placeholder
\* (selected, 3 s) and issues one request for it, whether or not the step
\* holds a reference image; every other scene keeps its images and gets no
\* request.
C40_BatchTouchesOnlyScenesWithoutImage ==
    [][HandleBatchGenerate =>
          /\ Len(scenes') = Len(scenes)
          /\ \A k \in 1..Len(scenes) :
                IF HasDoneOrGenerating(scenes[k]) THEN BatchKeeps(k)
                ELSE BatchReplaces(k)]_vars

\* C40: handleBatchGenerate touches only the scenes without a done or
\* generating image.  With a reference image, the images of such a scene are
\* replaced by one generating placeholder (selected, 3 s) and one request is
\* started for it, sent at once or when the loop reaches it; without a
\* reference image the placeholder ends as an error and no request is sent.
\* Every scene with a done or generating image keeps its images and gets no
\* request.
C40_BatchTouchesOnlyScenesWithoutImageGivenReferences ==
    [][HandleBatchGenerate =>
          /\ Len(scenes') = Len(scenes)
          /\ \A k \in 1..Len(scenes) :
                IF HasDoneOrGenerating(scenes[k]) THEN BatchKeeps(k)
                ELSE IF referenceImages # 0 THEN BatchReplaces(k)
                ELSE /\ scenes'[k].images =
                           <<[GeneratingPlaceholder EXCEPT !.status = "error"]>>
                     /\ RequestsStartedFor(k) = 0]_vars

\* A batch has started over three scenes: the first one keeps the image a
\* retry is generating, the second one holds the placeholder whose request
\* is outstanding, the third one holds the placeholder that waits.
C40_Witness ==
    /\ Len(scenes) = 3
    /\ isBatchGenerating
    /\ Request(1, 1, FALSE) \in requests
    /\ scenes[1].images[1].status = "generating"
    /\ scenes[2].images = <<GeneratingPlaceholder>>
    /\ Request(2, 1, TRUE) \in requests
    /\ scenes[3].images = <<GeneratingPlaceholder>>
    /\ batchQueue = <<3>>

====
